---- MODULE Spec2Model ----
(***************************************************************************)
(* A model of src/mgmt.c, the BlueZ management-interface driver: the       *)
(* controller table, the pending-UUID state machine and the settings       *)
(* handlers.  Every C function is an operator from a machine record m (the *)
(* table plus the output of the handler that is running) to the machine    *)
(* record after the call; every inbound message and every public entry     *)
(* point is one action.  What a step does is stated over the state it      *)
(* leaves: the variable before holds the table, the adapters and the       *)
(* counts as the step found them, last names the step, and the other       *)
(* variables hold what it left behind.                                     *)
(***************************************************************************)
EXTENDS Integers, Sequences, FiniteSets, TLC

VARIABLES max_index,    \* static int max_index
          controllers,  \* static struct controller_info *controllers
          adapters,     \* the adapter objects the manager holds, by id
          sent,         \* the commands written to mgmt_sock by the last step
          calls,        \* the adapter/manager calls made by the last step
          ret,          \* the value returned by the last public operation
          last,         \* the last message received or operation called
          pc,           \* "running", or "aborted" once the process has died
          unacked,      \* history: UUID commands written since the last
                        \* completion / since the last flag reset
          before        \* history: the table, the adapters and the counts
                        \* as the last step found them

vars == <<max_index, controllers, adapters, sent, calls, ret, last, pc,
          unacked, before>>

\* what a step finds: the state its handler reads and changes
Found ==
    [max_index |-> max_index, controllers |-> controllers,
     adapters |-> adapters, unacked |-> unacked]

(***************************************************************************)
(* Bounds of the model.                                                    *)
(***************************************************************************)
MaxIndex == 0
MaxQueue == 2

Idx == 0..MaxIndex

(***************************************************************************)
(* Settings bits, as tested by mgmt_powered() .. mgmt_low_energy().        *)
(***************************************************************************)
MGMT_SETTING_POWERED == 1
MGMT_SETTING_CONNECTABLE == 2
MGMT_SETTING_DISCOVERABLE == 8
MGMT_SETTING_PAIRABLE == 16
MGMT_SETTING_SSP == 64
MGMT_SETTING_BREDR == 128
MGMT_SETTING_LE == 512

HasBit(settings, bit) == (settings \div bit) % 2 = 1

mgmt_powered(settings) == HasBit(settings, MGMT_SETTING_POWERED)
mgmt_connectable(settings) == HasBit(settings, MGMT_SETTING_CONNECTABLE)
mgmt_discoverable(settings) == HasBit(settings, MGMT_SETTING_DISCOVERABLE)
mgmt_pairable(settings) == HasBit(settings, MGMT_SETTING_PAIRABLE)
mgmt_ssp(settings) == HasBit(settings, MGMT_SETTING_SSP)
mgmt_bredr(settings) == HasBit(settings, MGMT_SETTING_BREDR)
mgmt_low_energy(settings) == HasBit(settings, MGMT_SETTING_LE)

B2I(b) == IF b THEN 1 ELSE 0

\* bt_get_le32 / bt_get_le16 on a byte buffer
bt_get_le32(buf) == buf[1] + 256 * buf[2] + 65536 * buf[3] + 16777216 * buf[4]

(***************************************************************************)
(* struct controller_info, and the record memset() leaves.                 *)
(***************************************************************************)
ZeroInfo ==
    [valid |-> FALSE, bdaddr |-> 0,
     supported_settings |-> 0, current_settings |-> 0,
     connections |-> <<>>, discov_type |-> 0,
     pending_uuid |-> FALSE, pending_uuids |-> <<>>,
     pending_class |-> FALSE, major |-> 0, minor |-> 0,
     pending_powered |-> FALSE, pending_cod_change |-> FALSE]

\* What g_realloc() may leave in a slot it adds and add_controller() does not
\* clear: the bytes are indeterminate.
GarbageInfo ==
    {ZeroInfo,
     [ZeroInfo EXCEPT !.valid = TRUE],
     [ZeroInfo EXCEPT !.valid = TRUE, !.pending_uuid = TRUE,
                      !.pending_powered = TRUE, !.current_settings = 1]}

(***************************************************************************)
(* UUIDs.  A uuid_t is a type (16, 32 or 128) and a value; of a 128-bit    *)
(* value the model keeps the first 32 bits (hi) and whether the other 96   *)
(* are zero, those of the Bluetooth base UUID, or anything else (lo).      *)
(***************************************************************************)
LoZero == 0
LoBase == 1
LoOther == 2

sdp_uuid16_to_uuid128(uuid) == [type |-> 128, hi |-> uuid.hi, lo |-> LoBase]
sdp_uuid32_to_uuid128(uuid) == [type |-> 128, hi |-> uuid.hi, lo |-> LoBase]

\* sdp_uuid128_to_uuid: the uuid reduced in place, and whether it was
sdp_uuid128_to_uuid(uuid) ==
    IF uuid.lo # LoBase THEN [ok |-> FALSE, uuid |-> uuid]
    ELSE IF uuid.hi < 65536
         THEN [ok |-> TRUE, uuid |-> [type |-> 16, hi |-> uuid.hi, lo |-> LoZero]]
         ELSE [ok |-> TRUE, uuid |-> [type |-> 32, hi |-> uuid.hi, lo |-> LoZero]]

uuid_to_uuid128(uuid) ==
    IF uuid.type = 16 THEN sdp_uuid16_to_uuid128(uuid)
    ELSE IF uuid.type = 32 THEN sdp_uuid32_to_uuid128(uuid)
    ELSE uuid

is_16bit_uuid(uuid) ==
    IF uuid.type = 128 /\ uuid.hi = 0 /\ uuid.lo = LoZero THEN TRUE
    ELSE LET tmp == sdp_uuid128_to_uuid(uuid_to_uuid128(uuid))
         IN  IF ~tmp.ok THEN FALSE
             ELSE IF tmp.uuid.type # 16 THEN FALSE
             ELSE TRUE

UUID_A == [type |-> 16, hi |-> 4353, lo |-> LoZero]
UUID_B == [type |-> 128, hi |-> 4357, lo |-> LoBase]
UUID_X == [type |-> 32, hi |-> 65536, lo |-> LoZero]
uuid_any == [type |-> 128, hi |-> 0, lo |-> LoZero]

(***************************************************************************)
(* The machine record a handler runs on.                                   *)
(***************************************************************************)
NegErrno == -1

\* Which write() calls of the running handler fail, counted from 1.
WriteFailures == {"none", "first", "second", "all"}

Fails(fail, n) ==
    CASE fail = "none" -> FALSE
      [] fail = "first" -> n = 1
      [] fail = "second" -> n = 2
      [] OTHER -> TRUE

Machine(fail) ==
    [max_index |-> max_index, controllers |-> controllers,
     adapters |-> adapters, sent |-> <<>>, calls |-> <<>>, ret |-> 0,
     nw |-> 0, nfail |-> 0, wok |-> TRUE, fail |-> fail,
     ub |-> FALSE,
     unacked |-> unacked]

Cmd(opcode, index, payload) == <<opcode, index, payload>>

IsUuidCmd(cmd) == cmd[1] \in {"MGMT_OP_ADD_UUID", "MGMT_OP_REMOVE_UUID"}

Bump(n) == IF n < 2 THEN n + 1 ELSE 2

\* write(mgmt_sock, buf, sizeof(buf)); m.wok tells whether it succeeded
Write(m, cmd) ==
    IF Fails(m.fail, m.nw + 1)
    THEN [m EXCEPT !.nw = @ + 1, !.nfail = @ + 1, !.wok = FALSE]
    ELSE [m EXCEPT !.nw = @ + 1, !.wok = TRUE, !.sent = Append(@, cmd),
                   !.unacked = IF IsUuidCmd(cmd) /\ cmd[2] \in DOMAIN m.unacked
                               THEN [@ EXCEPT ![cmd[2]] =
                                       [c |-> Bump(@.c), r |-> Bump(@.r)]]
                               ELSE @]

Call(m, call) == [m EXCEPT !.calls = Append(@, call)]

Return(m, value) == [m EXCEPT !.ret = value]

\* abort(): the process dies where it stands; Aborted tells a step so
abort(m) == Call(m, <<"abort", 0, 0>>)

Aborted(m) == \E k \in 1..Len(m.calls) : m.calls[k][1] = "abort"

SetInfo_shared(m, index, info) ==
    [m EXCEPT !.controllers =
        [j \in DOMAIN @ |-> IF j = index \/ j <= m.max_index THEN info ELSE @[j]]]

SetInfo(m, index, info) == [m EXCEPT !.controllers[index] = info]

(***************************************************************************)
(* The manager: adapters[id] is the address of the adapter object          *)
(* registered for id, or NoAdapter.                                        *)
(***************************************************************************)
NoAdapter == -1

manager_find_adapter(m, bdaddr) ==
    LET found == {id \in DOMAIN m.adapters : m.adapters[id] = bdaddr}
    IN  IF found = {} THEN NoAdapter
        ELSE CHOOSE id \in found : \A other \in found : id <= other

manager_find_adapter_by_id(m, id) ==
    IF id \in DOMAIN m.adapters /\ m.adapters[id] # NoAdapter
    THEN id ELSE NoAdapter

(***************************************************************************)
(* Outbound commands.                                                      *)
(***************************************************************************)
mgmt_set_mode(m, index, opcode, val) ==
    LET w == Write(m, Cmd(opcode, index, <<val>>))
    IN  IF ~w.wok THEN Return(w, NegErrno) ELSE Return(w, 0)

\* mgmt_set_connectable recording the requested bit at once
mgmt_set_connectable_optimistic(m, index, connectable) ==
    LET info == m.controllers[index]
        bit == IF mgmt_connectable(info.current_settings) = connectable THEN 0
               ELSE IF connectable THEN MGMT_SETTING_CONNECTABLE
               ELSE 0 - MGMT_SETTING_CONNECTABLE
    IN  mgmt_set_mode(SetInfo(m, index,
                          [info EXCEPT !.current_settings = @ + bit]),
                      index, "MGMT_OP_SET_CONNECTABLE", B2I(connectable))

mgmt_set_connectable(m, index, connectable) ==
    mgmt_set_mode(m, index, "MGMT_OP_SET_CONNECTABLE", B2I(connectable))

mgmt_set_discoverable(m, index, discoverable, timeout) ==
    LET w == Write(m, Cmd("MGMT_OP_SET_DISCOVERABLE", index,
                          <<B2I(discoverable), timeout>>))
    IN  IF ~w.wok THEN Return(w, NegErrno) ELSE Return(w, 0)

mgmt_set_pairable(m, index, pairable) ==
    mgmt_set_mode(m, index, "MGMT_OP_SET_PAIRABLE", B2I(pairable))

mgmt_set_ssp(m, index, ssp) ==
    mgmt_set_mode(m, index, "MGMT_OP_SET_SSP", B2I(ssp))

mgmt_set_low_energy(m, index, le) ==
    mgmt_set_mode(m, index, "MGMT_OP_SET_LE", B2I(le))

\* mgmt_add_uuid queueing also behind requests that wait with no UUID
\* operation in flight
mgmt_add_uuid_behind(m, index, uuid, svc_hint) ==
    LET info == m.controllers[index]
    IN  IF ~is_16bit_uuid(uuid) THEN Return(m, 0)
        ELSE IF info.pending_uuid \/ info.pending_uuids # <<>>
        THEN LET pending == [add |-> TRUE, uuid |-> uuid, svc_hint |-> svc_hint]
             IN  Return(SetInfo(m, index,
                     [info EXCEPT !.pending_uuids = Append(@, pending)]), 0)
        ELSE LET uuid128 == uuid_to_uuid128(uuid)
                 w == Write(m, Cmd("MGMT_OP_ADD_UUID", index,
                                   <<uuid128.hi, uuid128.lo, svc_hint>>))
             IN  IF ~w.wok THEN Return(w, NegErrno)
                 ELSE Return(SetInfo(w, index,
                                 [info EXCEPT !.pending_uuid = TRUE]), 0)

\* mgmt_add_uuid without "info->pending_uuid = TRUE" after the write
mgmt_add_uuid_unmarked(m, index, uuid, svc_hint) ==
    LET info == m.controllers[index]
    IN  IF ~is_16bit_uuid(uuid) THEN Return(m, 0)
        ELSE IF info.pending_uuid
        THEN LET pending == [add |-> TRUE, uuid |-> uuid, svc_hint |-> svc_hint]
             IN  Return(SetInfo(m, index,
                     [info EXCEPT !.pending_uuids = Append(@, pending)]), 0)
        ELSE LET uuid128 == uuid_to_uuid128(uuid)
                 w == Write(m, Cmd("MGMT_OP_ADD_UUID", index,
                                   <<uuid128.hi, uuid128.lo, svc_hint>>))
             IN  IF ~w.wok THEN Return(w, NegErrno) ELSE Return(w, 0)

mgmt_add_uuid(m, index, uuid, svc_hint) ==
    LET info == m.controllers[index]
    IN  IF ~is_16bit_uuid(uuid) THEN Return(m, 0)
        ELSE IF info.pending_uuid
        THEN LET pending == [add |-> TRUE, uuid |-> uuid, svc_hint |-> svc_hint]
             IN  Return(SetInfo(m, index,
                     [info EXCEPT !.pending_uuids = Append(@, pending)]), 0)
        ELSE LET uuid128 == uuid_to_uuid128(uuid)
                 w == Write(m, Cmd("MGMT_OP_ADD_UUID", index,
                                   <<uuid128.hi, uuid128.lo, svc_hint>>))
             IN  IF ~w.wok THEN Return(w, NegErrno)
                 ELSE Return(SetInfo(w, index,
                                 [info EXCEPT !.pending_uuid = TRUE]), 0)

\* mgmt_remove_uuid with g_slist_prepend in place of g_slist_append
mgmt_remove_uuid_prepend(m, index, uuid) ==
    LET info == m.controllers[index]
    IN  IF ~is_16bit_uuid(uuid) THEN Return(m, 0)
        ELSE IF info.pending_uuid
        THEN LET pending == [add |-> FALSE, uuid |-> uuid, svc_hint |-> 0]
             IN  Return(SetInfo(m, index,
                     [info EXCEPT !.pending_uuids = <<pending>> \o @]), 0)
        ELSE LET uuid128 == uuid_to_uuid128(uuid)
                 w == Write(m, Cmd("MGMT_OP_REMOVE_UUID", index,
                                   <<uuid128.hi, uuid128.lo>>))
             IN  IF ~w.wok THEN Return(w, NegErrno)
                 ELSE Return(SetInfo(w, index,
                                 [info EXCEPT !.pending_uuid = TRUE]), 0)

mgmt_remove_uuid(m, index, uuid) ==
    LET info == m.controllers[index]
    IN  IF ~is_16bit_uuid(uuid) THEN Return(m, 0)
        ELSE IF info.pending_uuid
        THEN LET pending == [add |-> FALSE, uuid |-> uuid, svc_hint |-> 0]
             IN  Return(SetInfo(m, index,
                     [info EXCEPT !.pending_uuids = Append(@, pending)]), 0)
        ELSE LET uuid128 == uuid_to_uuid128(uuid)
                 w == Write(m, Cmd("MGMT_OP_REMOVE_UUID", index,
                                   <<uuid128.hi, uuid128.lo>>))
             IN  IF ~w.wok THEN Return(w, NegErrno)
                 ELSE Return(SetInfo(w, index,
                                 [info EXCEPT !.pending_uuid = TRUE]), 0)

\* clear_uuids that asks for nothing
clear_uuids_skip(m, index) == Return(m, 0)

clear_uuids(m, index) == mgmt_remove_uuid(m, index, uuid_any)

\* mgmt_set_powered leaving a deferred power-on in place on a power-off
mgmt_set_powered_keep(m, index, powered) ==
    LET info == m.controllers[index]
    IN  IF powered /\ info.pending_uuid
        THEN Return(SetInfo(m, index, [info EXCEPT !.pending_powered = TRUE]), 0)
        ELSE mgmt_set_mode(m, index, "MGMT_OP_SET_POWERED", B2I(powered))

\* mgmt_set_powered without the test of pending_uuid
mgmt_set_powered_now(m, index, powered) ==
    LET info == m.controllers[index]
        m1 == IF powered THEN m
              ELSE SetInfo(m, index, [info EXCEPT !.pending_powered = FALSE])
    IN  mgmt_set_mode(m1, index, "MGMT_OP_SET_POWERED", B2I(powered))

mgmt_set_powered(m, index, powered) ==
    LET info == m.controllers[index]
    IN  IF powered /\ info.pending_uuid
        THEN Return(SetInfo(m, index, [info EXCEPT !.pending_powered = TRUE]), 0)
        ELSE LET m1 == IF powered THEN m
                       ELSE SetInfo(m, index,
                                [info EXCEPT !.pending_powered = FALSE])
             IN  mgmt_set_mode(m1, index, "MGMT_OP_SET_POWERED", B2I(powered))

\* mgmt_set_dev_class keeping the class that is queued already
mgmt_set_dev_class_first(m, index, major, minor) ==
    LET info == m.controllers[index]
    IN  IF info.pending_uuid
        THEN IF info.pending_class THEN Return(m, 0)
             ELSE Return(SetInfo(m, index,
                      [info EXCEPT !.major = major, !.minor = minor,
                                   !.pending_class = TRUE]), 0)
        ELSE LET w == Write(m, Cmd("MGMT_OP_SET_DEV_CLASS", index,
                                   <<major, minor>>))
             IN  IF ~w.wok THEN Return(w, NegErrno) ELSE Return(w, 0)

\* mgmt_set_dev_class without the test of a UUID operation in flight
mgmt_set_dev_class_now(m, index, major, minor) ==
    LET w == Write(m, Cmd("MGMT_OP_SET_DEV_CLASS", index, <<major, minor>>))
    IN  IF ~w.wok THEN Return(w, NegErrno) ELSE Return(w, 0)

mgmt_set_dev_class(m, index, major, minor) ==
    LET info == m.controllers[index]
    IN  IF info.pending_uuid
        THEN Return(SetInfo(m, index,
                 [info EXCEPT !.major = major, !.minor = minor,
                              !.pending_class = TRUE]), 0)
        ELSE LET w == Write(m, Cmd("MGMT_OP_SET_DEV_CLASS", index,
                                   <<major, minor>>))
             IN  IF ~w.wok THEN Return(w, NegErrno) ELSE Return(w, 0)

(***************************************************************************)
(* History bookkeeping, not program state.  unacked[index].c counts the    *)
(* UUID commands written for index since its last UUID completion, and     *)
(* unacked[index].r those written since the last event that resets its     *)
(* pending state: a UUID completion, a class-of-device event taken as the  *)
(* retry of a busy add, a power-off, or the slot being (re)initialised.    *)
(***************************************************************************)
NoteCompletion(m, index) ==
    [m EXCEPT !.unacked[index] = [c |-> 0, r |-> 0]]

NoteReset(m, index) ==
    [m EXCEPT !.unacked[index].r = 0]

NoteNew(m, index) ==
    [m EXCEPT !.unacked[index] = [c |-> 0, r |-> 0]]

(***************************************************************************)
(* The pending-UUID queue.                                                 *)
(***************************************************************************)
\* handle_pending_uuids taking the entry at the back of the queue
handle_pending_uuids_lifo(m, index) ==
    LET m1 == SetInfo(m, index,
                  [m.controllers[index] EXCEPT !.pending_uuid = FALSE])
        info == m1.controllers[index]
        n == Len(info.pending_uuids)
    IN  IF n = 0
        THEN LET m2 == IF info.pending_class
                       THEN mgmt_set_dev_class(
                                SetInfo(m1, index,
                                    [info EXCEPT !.pending_class = FALSE]),
                                index, info.major, info.minor)
                       ELSE m1
             IN  IF m2.controllers[index].pending_powered
                 THEN mgmt_set_powered(
                          SetInfo(m2, index,
                              [m2.controllers[index] EXCEPT
                                   !.pending_powered = FALSE]),
                          index, TRUE)
                 ELSE m2
        ELSE LET pending == info.pending_uuids[n]
                 m2 == IF pending.add
                       THEN mgmt_add_uuid(m1, index, pending.uuid,
                                          pending.svc_hint)
                       ELSE mgmt_remove_uuid(m1, index, pending.uuid)
             IN  SetInfo(m2, index,
                     [m2.controllers[index] EXCEPT
                          !.pending_uuids = SubSeq(@, 1, n - 1)])

\* handle_pending_uuids sending the class change and the power-on although
\* requests are still queued
handle_pending_uuids_eager(m, index) ==
    LET m1 == SetInfo(m, index,
                  [m.controllers[index] EXCEPT !.pending_uuid = FALSE])
        info == m1.controllers[index]
        m2 == IF info.pending_class
              THEN mgmt_set_dev_class(
                       SetInfo(m1, index,
                           [info EXCEPT !.pending_class = FALSE]),
                       index, info.major, info.minor)
              ELSE m1
        m3 == IF m2.controllers[index].pending_powered
              THEN mgmt_set_powered(
                       SetInfo(m2, index,
                           [m2.controllers[index] EXCEPT
                                !.pending_powered = FALSE]),
                       index, TRUE)
              ELSE m2
    IN  IF Len(info.pending_uuids) = 0 THEN m3
        ELSE LET pending == Head(info.pending_uuids)
                 m4 == IF pending.add
                       THEN mgmt_add_uuid(m3, index, pending.uuid,
                                          pending.svc_hint)
                       ELSE mgmt_remove_uuid(m3, index, pending.uuid)
             IN  SetInfo(m4, index,
                     [m4.controllers[index] EXCEPT
                          !.pending_uuids = Tail(@)])

\* handle_pending_uuids clearing the in-flight flag after the drained entry
\* has been sent, not before
handle_pending_uuids_clearlast(m, index) ==
    LET m1 == SetInfo(m, index,
                  [m.controllers[index] EXCEPT !.pending_uuid = FALSE])
        info == m1.controllers[index]
    IN  IF Len(info.pending_uuids) = 0
        THEN LET m2 == IF info.pending_class
                       THEN mgmt_set_dev_class(
                                SetInfo(m1, index,
                                    [info EXCEPT !.pending_class = FALSE]),
                                index, info.major, info.minor)
                       ELSE m1
             IN  IF m2.controllers[index].pending_powered
                 THEN mgmt_set_powered(
                          SetInfo(m2, index,
                              [m2.controllers[index] EXCEPT
                                   !.pending_powered = FALSE]),
                          index, TRUE)
                 ELSE m2
        ELSE LET pending == Head(info.pending_uuids)
                 m2 == IF pending.add
                       THEN mgmt_add_uuid(m1, index, pending.uuid,
                                          pending.svc_hint)
                       ELSE mgmt_remove_uuid(m1, index, pending.uuid)
             IN  SetInfo(m2, index,
                     [m2.controllers[index] EXCEPT
                          !.pending_uuids = Tail(@),
                          !.pending_uuid = FALSE])

handle_pending_uuids(m, index) ==
    LET m1 == SetInfo(m, index,
                  [m.controllers[index] EXCEPT !.pending_uuid = FALSE])
        info == m1.controllers[index]
    IN  IF Len(info.pending_uuids) = 0
        THEN LET m2 == IF info.pending_class
                       THEN mgmt_set_dev_class(
                                SetInfo(m1, index,
                                    [info EXCEPT !.pending_class = FALSE]),
                                index, info.major, info.minor)
                       ELSE m1
                 m3 == IF m2.controllers[index].pending_powered
                       THEN mgmt_set_powered(
                                SetInfo(m2, index,
                                    [m2.controllers[index] EXCEPT
                                         !.pending_powered = FALSE]),
                                index, TRUE)
                       ELSE m2
             IN  m3
        ELSE LET pending == Head(info.pending_uuids)
                 m2 == IF pending.add
                       THEN mgmt_add_uuid(m1, index, pending.uuid,
                                          pending.svc_hint)
                       ELSE mgmt_remove_uuid(m1, index, pending.uuid)
             IN  \* g_slist_remove(pending): the node at the front
                 SetInfo(m2, index,
                     [m2.controllers[index] EXCEPT
                          !.pending_uuids = Tail(@)])

\* sizeof(struct mgmt_cod): val[3]
SizeofCod == 3

\* There is no test of index: beyond max_index, &controllers[index] is out
\* of the table and what follows is undefined.
mgmt_update_cod(m, index, buf, len) ==
    IF len < SizeofCod THEN m
    ELSE IF index > m.max_index THEN [m EXCEPT !.ub = TRUE]
    ELSE LET info == m.controllers[index]
             adapter == manager_find_adapter(m, info.bdaddr)
         IN  IF adapter = NoAdapter THEN m
             ELSE Call(m, <<"btd_adapter_class_changed", adapter,
                            <<buf[1], buf[2], buf[3]>> >>)

mgmt_add_uuid_complete_nodrain(m, index, buf, len) ==
    IF index > m.max_index THEN m
    ELSE mgmt_update_cod(m, index, buf, len)

mgmt_add_uuid_complete(m, index, buf, len) ==
    IF index > m.max_index THEN m
    ELSE handle_pending_uuids(
             mgmt_update_cod(NoteCompletion(m, index), index, buf, len),
             index)

mgmt_remove_uuid_complete(m, index, buf, len) ==
    IF index > m.max_index THEN m
    ELSE handle_pending_uuids(
             mgmt_update_cod(NoteCompletion(m, index), index, buf, len),
             index)

\* mgmt_add_uuid_busy giving up the command in flight at once
mgmt_add_uuid_busy_giveup(m, index) ==
    IF index > m.max_index THEN [m EXCEPT !.ub = TRUE]
    ELSE SetInfo(m, index,
             [m.controllers[index] EXCEPT !.pending_cod_change = TRUE,
                                         !.pending_uuid = FALSE])

\* No check of index: beyond max_index the store is out of bounds.
mgmt_add_uuid_busy(m, index) ==
    IF index > m.max_index THEN [m EXCEPT !.ub = TRUE]
    ELSE SetInfo(m, index,
             [m.controllers[index] EXCEPT !.pending_cod_change = TRUE])

\* mgmt_cod_changed draining whatever the busy flag says
mgmt_cod_changed_always(m, index, buf, len) ==
    IF index > m.max_index THEN m
    ELSE LET info == m.controllers[index]
             m1 == handle_pending_uuids(
                       NoteReset(SetInfo(m, index,
                           [info EXCEPT !.pending_cod_change = FALSE]),
                           index),
                       index)
         IN  mgmt_update_cod(m1, index, buf, len)

mgmt_cod_changed(m, index, buf, len) ==
    IF index > m.max_index THEN m
    ELSE LET info == m.controllers[index]
             m1 == IF info.pending_cod_change
                   THEN handle_pending_uuids(
                            NoteReset(SetInfo(m, index,
                                [info EXCEPT !.pending_cod_change = FALSE]),
                                index),
                            index)
                   ELSE m
         IN  mgmt_update_cod(m1, index, buf, len)

(***************************************************************************)
(* Settings.                                                               *)
(***************************************************************************)
\* update_settings with the connectable and discoverable bits exchanged
update_settings_swapped(m, adapter, settings) ==
    LET m1 == Call(m, <<"adapter_update_connectable", adapter,
                        B2I(mgmt_discoverable(settings))>>)
        m2 == Call(m1, <<"adapter_update_discoverable", adapter,
                         B2I(mgmt_connectable(settings))>>)
    IN  Call(m2, <<"adapter_update_pairable", adapter,
                   B2I(mgmt_pairable(settings))>>)

update_settings(m, adapter, settings) ==
    LET m1 == Call(m, <<"adapter_update_connectable", adapter,
                        B2I(mgmt_connectable(settings))>>)
        m2 == Call(m1, <<"adapter_update_discoverable", adapter,
                         B2I(mgmt_discoverable(settings))>>)
    IN  Call(m2, <<"adapter_update_pairable", adapter,
                   B2I(mgmt_pairable(settings))>>)

\* mgmt_update_powered without btd_adapter_start
mgmt_update_powered_nostart(m, adapter, index, settings) ==
    IF ~mgmt_powered(settings)
    THEN LET m1 == Call(m, <<"btd_adapter_stop", adapter, 0>>)
         IN  NoteReset(SetInfo(m1, index,
                 [m1.controllers[index] EXCEPT
                      !.pending_uuids = <<>>,
                      !.pending_uuid = FALSE,
                      !.pending_class = FALSE,
                      !.pending_cod_change = FALSE]), index)
    ELSE update_settings(m, adapter, settings)

mgmt_update_powered(m, adapter, index, settings) ==
    IF ~mgmt_powered(settings)
    THEN LET m1 == Call(m, <<"btd_adapter_stop", adapter, 0>>)
         IN  NoteReset(SetInfo(m1, index,
                 [m1.controllers[index] EXCEPT
                      !.pending_uuids = <<>>,
                      !.pending_uuid = FALSE,
                      !.pending_class = FALSE,
                      !.pending_cod_change = FALSE]), index)
    ELSE update_settings(Call(m, <<"btd_adapter_start", adapter, 0>>),
                         adapter, settings)

\* sizeof(uint32_t)
SizeofSettings == 4

\* mgmt_new_settings storing the bitmask only when the power changes
mgmt_new_settings_stale(m, index, buf, len) ==
    IF len < SizeofSettings THEN m
    ELSE IF index > m.max_index THEN m
    ELSE LET info == m.controllers[index]
             adapter == manager_find_adapter(m, info.bdaddr)
         IN  IF adapter = NoAdapter THEN m
             ELSE LET settings == bt_get_le32(buf)
                      old_power == mgmt_powered(info.current_settings)
                      new_power == mgmt_powered(settings)
                  IN  IF new_power # old_power
                      THEN LET m1 == mgmt_update_powered(m, adapter, index,
                                                         settings)
                           IN  SetInfo(m1, index,
                                   [m1.controllers[index] EXCEPT
                                        !.current_settings = settings])
                      ELSE update_settings(m, adapter, settings)

mgmt_new_settings(m, index, buf, len) ==
    IF len < SizeofSettings THEN m
    ELSE IF index > m.max_index THEN m
    ELSE LET info == m.controllers[index]
             adapter == manager_find_adapter(m, info.bdaddr)
         IN  IF adapter = NoAdapter THEN m
             ELSE LET settings == bt_get_le32(buf)
                      old_power == mgmt_powered(info.current_settings)
                      new_power == mgmt_powered(settings)
                      m1 == IF new_power # old_power
                            THEN mgmt_update_powered(m, adapter, index, settings)
                            ELSE update_settings(m, adapter, settings)
                  IN  SetInfo(m1, index,
                          [m1.controllers[index] EXCEPT
                               !.current_settings = settings])

(***************************************************************************)
(* The controller table.                                                   *)
(***************************************************************************)
\* garbage[j] is what g_realloc() left in a slot j the growth added
\* add_controller without the memset of the slot
add_controller_keep(m, index, garbage) ==
    LET grown == [j \in DOMAIN m.controllers |->
                     IF index > m.max_index /\ j > m.max_index /\ j < index
                     THEN garbage[j] ELSE m.controllers[j]]
        m1 == [m EXCEPT !.max_index = IF index > @ THEN index ELSE @,
                        !.controllers = grown]
    IN  NoteNew(SetInfo(m1, index,
                    [m1.controllers[index] EXCEPT !.valid = TRUE]), index)

add_controller(m, index, garbage) ==
    LET grown == [j \in DOMAIN m.controllers |->
                     IF index > m.max_index /\ j > m.max_index /\ j < index
                     THEN garbage[j] ELSE m.controllers[j]]
        m1 == [m EXCEPT !.max_index = IF index > @ THEN index ELSE @,
                        !.controllers = grown]
    IN  NoteNew(SetInfo(m1, index, [ZeroInfo EXCEPT !.valid = TRUE]), index)

read_info(m, index) == Write(m, Cmd("MGMT_OP_READ_INFO", index, <<>>))

get_connections(m, index) ==
    Write(m, Cmd("MGMT_OP_GET_CONNECTIONS", index, <<>>))

mgmt_index_added(m, index, garbage) ==
    read_info(add_controller(m, index, garbage), index)

btd_manager_unregister_adapter(m, id) ==
    [Call(m, <<"btd_manager_unregister_adapter", id, 0>>)
        EXCEPT !.adapters[id] = NoAdapter]

\* remove_controller without the test of valid
remove_controller_unchecked(m, index) ==
    IF index > m.max_index THEN m
    ELSE NoteNew(SetInfo(btd_manager_unregister_adapter(m, index),
                         index, ZeroInfo), index)

remove_controller(m, index) ==
    IF index > m.max_index THEN m
    ELSE IF ~m.controllers[index].valid THEN m
    ELSE NoteNew(SetInfo(btd_manager_unregister_adapter(m, index),
                         index, ZeroInfo), index)

mgmt_index_removed(m, index) == remove_controller(m, index)

(***************************************************************************)
(* Bring-up of a controller.                                               *)
(***************************************************************************)
\* The adapter object for id with the address mgmt_read_bdaddr() gives it,
\* or NoAdapter: when one exists for id already, or when creating it fails.
btd_manager_register_adapter(m, id, up, reg_ok) ==
    LET m1 == Call(m, <<"btd_manager_register_adapter", id, B2I(up)>>)
    IN  IF m.adapters[id] # NoAdapter \/ ~reg_ok
        THEN [m |-> m1, adapter |-> NoAdapter]
        ELSE [m |-> [m1 EXCEPT !.adapters[id] = m.controllers[id].bdaddr],
              adapter |-> id]

mgmt_set_name(m, index, name) ==
    LET w == Write(m, Cmd("MGMT_OP_SET_LOCAL_NAME", index, <<name>>))
    IN  IF ~w.wok THEN Return(w, NegErrno) ELSE Return(w, 0)

\* sizeof(struct mgmt_rp_read_info)
SizeofReadInfo == 280

\* read_info_complete enabling LE without the test of supported_settings
read_info_complete_unasked(m, index, rp, len, cfg) ==
    IF len < SizeofReadInfo THEN m
    ELSE IF index > m.max_index THEN m
    ELSE LET m1 == SetInfo(m, index,
                       [m.controllers[index] EXCEPT
                            !.bdaddr = rp.bdaddr,
                            !.supported_settings = rp.supported_settings,
                            !.current_settings = rp.current_settings])
             m2 == clear_uuids(m1, index)
             cur == m2.controllers[index].current_settings
             sup == m2.controllers[index].supported_settings
             reg == btd_manager_register_adapter(m2, index,
                                                 mgmt_powered(cur), cfg.reg_ok)
             adapter == reg.adapter
         IN  IF adapter = NoAdapter THEN reg.m
             ELSE LET m3 == update_settings(reg.m, adapter, cur)
                      m4 == IF cfg.name # 0
                            THEN mgmt_set_name(m3, index, cfg.name)
                            ELSE Call(m3, <<"adapter_name_changed", adapter,
                                            rp.name>>)
                      m5 == mgmt_set_dev_class(m4, index, cfg.major, cfg.minor)
                      m6 == IF ~mgmt_pairable(cur)
                            THEN mgmt_set_pairable(m5, index, TRUE) ELSE m5
                      m7 == IF mgmt_ssp(sup) /\ ~mgmt_ssp(cur)
                            THEN mgmt_set_ssp(m6, index, TRUE) ELSE m6
                      m8 == IF ~mgmt_low_energy(cur)
                            THEN mgmt_set_low_energy(m7, index, TRUE) ELSE m7
                  IN  IF mgmt_powered(cur)
                      THEN Call(get_connections(m8, index),
                                <<"btd_adapter_start", adapter, 0>>)
                      ELSE m8

\* cfg: what the adapter object answers (reg_ok, name or 0, major, minor)
read_info_complete(m, index, rp, len, cfg) ==
    IF len < SizeofReadInfo THEN m
    ELSE IF index > m.max_index THEN m
    ELSE LET m1 == SetInfo(m, index,
                       [m.controllers[index] EXCEPT
                            !.bdaddr = rp.bdaddr,
                            !.supported_settings = rp.supported_settings,
                            !.current_settings = rp.current_settings])
             m2 == clear_uuids(m1, index)
             cur == m2.controllers[index].current_settings
             sup == m2.controllers[index].supported_settings
             reg == btd_manager_register_adapter(m2, index,
                                                 mgmt_powered(cur), cfg.reg_ok)
             adapter == reg.adapter
         IN  IF adapter = NoAdapter THEN reg.m
             ELSE LET m3 == update_settings(reg.m, adapter, cur)
                      m4 == IF cfg.name # 0
                            THEN mgmt_set_name(m3, index, cfg.name)
                            ELSE Call(m3, <<"adapter_name_changed", adapter,
                                            rp.name>>)
                      m5 == mgmt_set_dev_class(m4, index, cfg.major, cfg.minor)
                      m6 == IF ~mgmt_pairable(cur)
                            THEN mgmt_set_pairable(m5, index, TRUE) ELSE m5
                      m7 == IF mgmt_ssp(sup) /\ ~mgmt_ssp(cur)
                            THEN mgmt_set_ssp(m6, index, TRUE) ELSE m6
                      m8 == IF mgmt_low_energy(sup) /\ ~mgmt_low_energy(cur)
                            THEN mgmt_set_low_energy(m7, index, TRUE) ELSE m7
                  IN  IF mgmt_powered(cur)
                      THEN Call(get_connections(m8, index),
                                <<"btd_adapter_start", adapter, 0>>)
                      ELSE m8

(***************************************************************************)
(* Start-up: the version, then the list of controllers.                    *)
(***************************************************************************)
MGMT_INDEX_NONE == 65535

\* sizeof(struct mgmt_rp_read_version): version, revision
SizeofReadVersion == 3

\* read_version_complete dropping a short reply instead of aborting
read_version_complete_drop(m, rp, len) ==
    IF len < SizeofReadVersion THEN m
    ELSE IF rp.version < 1 THEN abort(m)
    ELSE Write(m, Cmd("MGMT_OP_READ_INDEX_LIST", MGMT_INDEX_NONE, <<>>))

\* rp: [version, revision].  mgmt_version and mgmt_revision are stored and
\* read by nothing else.
read_version_complete(m, rp, len) ==
    IF len < SizeofReadVersion THEN abort(m)
    ELSE IF rp.version < 1 THEN abort(m)
    ELSE Write(m, Cmd("MGMT_OP_READ_INDEX_LIST", MGMT_INDEX_NONE, <<>>))

\* sizeof(struct mgmt_rp_read_index_list): num_controllers, before index[]
SizeofReadIndexList == 2

RECURSIVE add_controllers(_, _, _, _)
\* the loop of read_index_list_complete, from entry i on
add_controllers(m, list, i, garbage) ==
    IF i > Len(list) THEN m
    ELSE add_controllers(
             read_info(add_controller(m, list[i], garbage), list[i]),
             list, i + 1, garbage)

\* read_index_list_complete taking a reply that is long enough
read_index_list_complete_atleast(m, rp, len, garbage) ==
    IF len < SizeofReadIndexList THEN m
    ELSE IF rp.num_controllers * 2 + SizeofReadIndexList > len THEN m
    ELSE add_controllers(m, SubSeq(rp.index, 1, rp.num_controllers), 1,
                         garbage)

\* rp: [num_controllers, index]
read_index_list_complete(m, rp, len, garbage) ==
    IF len < SizeofReadIndexList THEN m
    ELSE IF rp.num_controllers * 2 + SizeofReadIndexList # len THEN m
    ELSE add_controllers(m, SubSeq(rp.index, 1, rp.num_controllers), 1,
                         garbage)

(***************************************************************************)
(* Dispatch of command-complete and command-status.                        *)
(***************************************************************************)
\* sizeof(struct mgmt_ev_cmd_complete), sizeof(struct mgmt_ev_cmd_status)
SizeofCmdComplete == 3
SizeofCmdStatus == 3

MGMT_STATUS_BUSY == 10

\* the number of the opcode, as the first two bytes of a command-complete
\* for it hold it (little-endian)
MGMT_OP_SET_DEV_CLASS == 14

\* sizeof(struct mgmt_rp_get_connections): conn_count; sizeof(bdaddr_t);
\* sizeof(struct mgmt_addr_info): bdaddr, type
SizeofGetConnections == 2
SizeofBdaddr == 6
SizeofAddrInfo == 7

\* rp: [conn_count, addr], addr[i] a [bdaddr, type]; stale: what the read
\* buffer holds past the len bytes of the reply.  The length is tested with
\* sizeof(bdaddr_t) for each entry, and sizeof(struct mgmt_addr_info) bytes
\* are copied for each, so the last entries may come from past the reply.
get_connections_complete(m, index, rp, len, stale) ==
    IF len < SizeofGetConnections THEN m
    ELSE IF len < SizeofGetConnections + rp.conn_count * SizeofBdaddr THEN m
    ELSE IF index > m.max_index THEN m
    ELSE LET addr(i) ==
                 IF SizeofGetConnections + i * SizeofAddrInfo <= len
                 THEN rp.addr[i]
                 ELSE IF SizeofGetConnections + (i - 1) * SizeofAddrInfo
                           + SizeofBdaddr <= len
                 THEN [rp.addr[i] EXCEPT !.type = stale]
                 ELSE [bdaddr |-> stale, type |-> stale]
         IN  SetInfo(m, index,
                 [m.controllers[index] EXCEPT
                      !.connections =
                          @ \o [i \in 1..rp.conn_count |-> addr(i)]])

SettingsOpcodes ==
    {"MGMT_OP_SET_POWERED", "MGMT_OP_SET_DISCOVERABLE",
     "MGMT_OP_SET_CONNECTABLE", "MGMT_OP_SET_PAIRABLE", "MGMT_OP_SET_SSP",
     "MGMT_OP_SET_LE"}

\* mgmt_cmd_complete without the test of the event's own length
mgmt_cmd_complete_unsized(m, index, ev, len, in) ==
    LET dlen == len - SizeofCmdComplete
    IN  CASE ev.opcode = "MGMT_OP_READ_VERSION" ->
                 read_version_complete(m, ev.data, dlen)
          [] ev.opcode = "MGMT_OP_READ_INDEX_LIST" ->
                 read_index_list_complete(m, ev.data, dlen, in.garbage)
          [] ev.opcode = "MGMT_OP_READ_INFO" ->
                 read_info_complete(m, index, ev.data, dlen, in.cfg)
          [] ev.opcode \in SettingsOpcodes ->
                 mgmt_new_settings(m, index, ev.data, dlen)
          [] ev.opcode = "MGMT_OP_ADD_UUID" ->
                 mgmt_add_uuid_complete(m, index, ev.data, dlen)
          [] ev.opcode = "MGMT_OP_REMOVE_UUID" ->
                 mgmt_remove_uuid_complete(m, index, ev.data, dlen)
          [] ev.opcode = "MGMT_OP_SET_DEV_CLASS" ->
                 mgmt_update_cod(m, index,
                                 <<MGMT_OP_SET_DEV_CLASS % 256,
                                   MGMT_OP_SET_DEV_CLASS \div 256,
                                   ev.status>> \o ev.data, dlen)
          [] ev.opcode = "MGMT_OP_GET_CONNECTIONS" ->
                 get_connections_complete(m, index, ev.data, dlen, in.stale)
          [] OTHER -> m

\* ev: [opcode, status, data]; len: the length of the whole event payload;
\* in: the environment's part, cfg (the adapter object's answers, read by
\* read_info_complete) and garbage (read by read_index_list_complete)
mgmt_cmd_complete(m, index, ev, len, in) ==
    IF len < SizeofCmdComplete THEN m
    ELSE LET dlen == len - SizeofCmdComplete
         IN  CASE ev.opcode = "MGMT_OP_READ_VERSION" ->
                      read_version_complete(m, ev.data, dlen)
               [] ev.opcode = "MGMT_OP_READ_INDEX_LIST" ->
                      read_index_list_complete(m, ev.data, dlen, in.garbage)
               [] ev.opcode = "MGMT_OP_READ_INFO" ->
                      read_info_complete(m, index, ev.data, dlen, in.cfg)
               [] ev.opcode \in SettingsOpcodes ->
                      mgmt_new_settings(m, index, ev.data, dlen)
               [] ev.opcode = "MGMT_OP_ADD_UUID" ->
                      mgmt_add_uuid_complete(m, index, ev.data, dlen)
               [] ev.opcode = "MGMT_OP_REMOVE_UUID" ->
                      mgmt_remove_uuid_complete(m, index, ev.data, dlen)
               \* mgmt_update_cod(index, buf, len): buf is the event
               \* itself, opcode and status first, not ev->data
               [] ev.opcode = "MGMT_OP_SET_DEV_CLASS" ->
                      mgmt_update_cod(m, index,
                                      <<MGMT_OP_SET_DEV_CLASS % 256,
                                        MGMT_OP_SET_DEV_CLASS \div 256,
                                        ev.status>> \o ev.data, dlen)
               [] ev.opcode = "MGMT_OP_GET_CONNECTIONS" ->
                      get_connections_complete(m, index, ev.data, dlen,
                                               in.stale)
               [] OTHER -> m

\* read_local_oob_data_failed without the lookup of the adapter
read_local_oob_data_failed_unsought(m, index) ==
    IF index > m.max_index THEN m
    ELSE Call(m, <<"adapter_read_local_oob_data_complete", index, 0>>)

\* the call carries NULL for the hash and for the randomizer: 0
read_local_oob_data_failed(m, index) ==
    IF index > m.max_index THEN m
    ELSE LET adapter == manager_find_adapter_by_id(m, index)
         IN  IF adapter # NoAdapter
             THEN Call(m, <<"adapter_read_local_oob_data_complete", adapter,
                            0>>)
             ELSE m

\* mgmt_cmd_status taking BUSY for any opcode as the busy add
mgmt_cmd_status_anybusy(m, index, ev, len) ==
    IF len < SizeofCmdStatus THEN m
    ELSE IF ev.status = 0 THEN m
    ELSE IF ev.opcode = "MGMT_OP_READ_LOCAL_OOB_DATA"
         THEN read_local_oob_data_failed(m, index)
    ELSE IF ev.status = MGMT_STATUS_BUSY
         THEN mgmt_add_uuid_busy(m, index)
         ELSE m

mgmt_cmd_status(m, index, ev, len) ==
    IF len < SizeofCmdStatus THEN m
    ELSE IF ev.status = 0 THEN m
    ELSE CASE ev.opcode = "MGMT_OP_READ_LOCAL_OOB_DATA" ->
                  read_local_oob_data_failed(m, index)
           [] ev.opcode = "MGMT_OP_ADD_UUID" ->
                  IF ev.status = MGMT_STATUS_BUSY
                  THEN mgmt_add_uuid_busy(m, index)
                  ELSE m
           [] OTHER -> m

(***************************************************************************)
(* Discovery.                                                              *)
(***************************************************************************)
\* hci_set_bit(BDADDR_BREDR / BDADDR_LE_PUBLIC / BDADDR_LE_RANDOM, &type)
DiscovBredr == 1
DiscovLe == 6

mgmt_start_discovery(m, index) ==
    LET info == m.controllers[index]
        type == (IF mgmt_bredr(info.current_settings) THEN DiscovBredr ELSE 0)
              + (IF mgmt_low_energy(info.current_settings) THEN DiscovLe ELSE 0)
        m1 == SetInfo(m, index, [info EXCEPT !.discov_type = type])
        w == Write(m1, Cmd("MGMT_OP_START_DISCOVERY", index, <<type>>))
    IN  IF ~w.wok THEN Return(w, NegErrno) ELSE Return(w, 0)

\* mgmt_stop_discovery computing the type anew from the current settings
mgmt_stop_discovery_fresh(m, index) ==
    LET info == m.controllers[index]
        type == (IF mgmt_bredr(info.current_settings) THEN DiscovBredr ELSE 0)
              + (IF mgmt_low_energy(info.current_settings) THEN DiscovLe ELSE 0)
        w == Write(m, Cmd("MGMT_OP_STOP_DISCOVERY", index, <<type>>))
    IN  IF ~w.wok THEN Return(w, NegErrno) ELSE Return(w, 0)

mgmt_stop_discovery(m, index) ==
    LET w == Write(m, Cmd("MGMT_OP_STOP_DISCOVERY", index,
                          <<m.controllers[index].discov_type>>))
    IN  IF ~w.wok THEN Return(w, NegErrno) ELSE Return(w, 0)

ENOTSUP == 95

\* mgmt_start_le_scanning answering the request without the LE test
mgmt_start_le_scanning_untested(m, index) ==
    LET info == m.controllers[index]
        m1 == SetInfo(m, index, [info EXCEPT !.discov_type = DiscovLe])
        w == Write(m1, Cmd("MGMT_OP_START_DISCOVERY", index, <<DiscovLe>>))
    IN  IF ~w.wok THEN Return(w, NegErrno) ELSE Return(w, 0)

mgmt_start_le_scanning(m, index) ==
    LET info == m.controllers[index]
    IN  IF ~mgmt_low_energy(info.current_settings) THEN Return(m, -ENOTSUP)
        ELSE LET m1 == SetInfo(m, index,
                           [info EXCEPT !.discov_type = DiscovLe])
                 w == Write(m1, Cmd("MGMT_OP_START_DISCOVERY", index,
                                    <<DiscovLe>>))
             IN  IF ~w.wok THEN Return(w, NegErrno) ELSE Return(w, 0)

(***************************************************************************)
(* The other public operations: each builds one command and writes it.     *)
(***************************************************************************)
\* if (write(mgmt_sock, ...) < 0) return -errno; return 0;
WriteOrErrno(m, cmd) ==
    LET w == Write(m, cmd)
    IN  IF ~w.wok THEN Return(w, NegErrno) ELSE Return(w, 0)

EINVAL == 22
ENOMEM == 12

\* pin: 0 for NULL
mgmt_pincode_reply(m, index, bdaddr, pin, pin_len) ==
    IF pin = 0
    THEN WriteOrErrno(m, Cmd("MGMT_OP_PIN_CODE_NEG_REPLY", index, <<bdaddr>>))
    ELSE IF pin_len > 16 THEN Return(m, -EINVAL)
    ELSE WriteOrErrno(m, Cmd("MGMT_OP_PIN_CODE_REPLY", index,
                             <<bdaddr, pin_len, pin>>))

mgmt_confirm_reply(m, index, bdaddr, bdaddr_type, success) ==
    WriteOrErrno(m, Cmd(IF success THEN "MGMT_OP_USER_CONFIRM_REPLY"
                        ELSE "MGMT_OP_USER_CONFIRM_NEG_REPLY",
                        index, <<bdaddr, bdaddr_type>>))

\* 0xffffffff; a passkey is held as its high and low 16 bits
INVALID_PASSKEY == <<65535, 65535>>

mgmt_passkey_reply(m, index, bdaddr, bdaddr_type, passkey) ==
    IF passkey = INVALID_PASSKEY
    THEN WriteOrErrno(m, Cmd("MGMT_OP_USER_PASSKEY_NEG_REPLY", index,
                             <<bdaddr, bdaddr_type>>))
    ELSE WriteOrErrno(m, Cmd("MGMT_OP_USER_PASSKEY_REPLY", index,
                             <<bdaddr, bdaddr_type, passkey>>))

mgmt_set_fast_connectable(m, index, enable) ==
    WriteOrErrno(m, Cmd("MGMT_OP_SET_FAST_CONNECTABLE", index,
                        <<B2I(enable)>>))

mgmt_block_device(m, index, bdaddr, bdaddr_type) ==
    WriteOrErrno(m, Cmd("MGMT_OP_BLOCK_DEVICE", index,
                        <<bdaddr, bdaddr_type>>))

mgmt_unblock_device(m, index, bdaddr, bdaddr_type) ==
    WriteOrErrno(m, Cmd("MGMT_OP_UNBLOCK_DEVICE", index,
                        <<bdaddr, bdaddr_type>>))

\* a failed write is logged and 0 is returned
mgmt_disconnect(m, index, bdaddr, bdaddr_type) ==
    Return(Write(m, Cmd("MGMT_OP_DISCONNECT", index, <<bdaddr, bdaddr_type>>)),
           0)

mgmt_unpair_device(m, index, bdaddr, bdaddr_type) ==
    WriteOrErrno(m, Cmd("MGMT_OP_UNPAIR_DEVICE", index,
                        <<bdaddr, bdaddr_type, 1>>))

mgmt_set_did(m, index, vendor, product, version, source) ==
    WriteOrErrno(m, Cmd("MGMT_OP_SET_DEVICE_ID", index,
                        <<source, vendor, product, version>>))

\* alloc_ok: whether g_try_malloc0() gave the buffer
mgmt_load_link_keys(m, index, key_count, debug_keys, alloc_ok) ==
    IF ~alloc_ok THEN Return(m, -ENOMEM)
    ELSE WriteOrErrno(m, Cmd("MGMT_OP_LOAD_LINK_KEYS", index,
                             <<B2I(debug_keys), key_count>>))

mgmt_set_io_capability(m, index, io_capability) ==
    WriteOrErrno(m, Cmd("MGMT_OP_SET_IO_CAPABILITY", index,
                        <<io_capability>>))

mgmt_create_bonding(m, index, bdaddr, addr_type, io_cap) ==
    WriteOrErrno(m, Cmd("MGMT_OP_PAIR_DEVICE", index,
                        <<bdaddr, addr_type, io_cap>>))

mgmt_cancel_bonding(m, index, bdaddr) ==
    WriteOrErrno(m, Cmd("MGMT_OP_CANCEL_PAIR_DEVICE", index, <<bdaddr>>))

mgmt_read_local_oob_data(m, index) ==
    WriteOrErrno(m, Cmd("MGMT_OP_READ_LOCAL_OOB_DATA", index, <<>>))

mgmt_add_remote_oob_data(m, index, bdaddr, hash, randomizer) ==
    WriteOrErrno(m, Cmd("MGMT_OP_ADD_REMOTE_OOB_DATA", index,
                        <<bdaddr, hash, randomizer>>))

mgmt_remove_remote_oob_data(m, index, bdaddr) ==
    WriteOrErrno(m, Cmd("MGMT_OP_REMOVE_REMOTE_OOB_DATA", index, <<bdaddr>>))

mgmt_confirm_name(m, index, bdaddr, bdaddr_type, name_known) ==
    WriteOrErrno(m, Cmd("MGMT_OP_CONFIRM_NAME", index,
                        <<bdaddr, bdaddr_type, B2I(name_known)>>))

mgmt_load_ltks(m, index, key_count, alloc_ok) ==
    IF ~alloc_ok THEN Return(m, -ENOMEM)
    ELSE WriteOrErrno(m, Cmd("MGMT_OP_LOAD_LONG_TERM_KEYS", index,
                             <<key_count>>))

(***************************************************************************)
(* Inputs.                                                                 *)
(***************************************************************************)
\* add-UUID requests <<uuid, svc_hint>> and remove-UUID requests
AddRequests == {<<UUID_A, 1>>, <<UUID_B, 2>>, <<UUID_X, 1>>}
RemoveRequests == {UUID_A, UUID_X}

\* payloads of a settings event: the bitmask, little-endian
SettingsPayloads ==
    {<<0, 0, 0, 0>>, <<1, 0, 0, 0>>, <<19, 0, 0, 0>>, <<1, 0>>}

\* class-of-device payloads of a UUID completion or class event
CodPayloads == {<<4, 1, 0>>, <<4>>}

\* read-info replies, and the answers of the adapter object
ReadInfoReplies ==
    {[bdaddr |-> 1, supported_settings |-> 731, current_settings |-> cur,
      name |-> 1] : cur \in {0, 1}}

AdapterAnswers ==
    {[reg_ok |-> TRUE, name |-> 0, major |-> 1, minor |-> 4],
     [reg_ok |-> TRUE, name |-> 2, major |-> 1, minor |-> 4],
     [reg_ok |-> FALSE, name |-> 0, major |-> 1, minor |-> 4]}

NoAnswers == [reg_ok |-> TRUE, name |-> 0, major |-> 0, minor |-> 0]

DevClasses == {<<1, 4>>, <<2, 8>>}

NoGarbage == [j \in DOMAIN controllers |-> ZeroInfo]

\* only the slots between the old max_index and index are left uncleared
Garbage(index) ==
    {garbage \in [DOMAIN controllers -> GarbageInfo] :
         \A j \in DOMAIN controllers :
             (j <= max_index \/ j >= index) => garbage[j] = ZeroInfo}

Registered(index) == index <= max_index /\ controllers[index].valid

\* Registered, in the state the step found
RegisteredBefore(index) ==
    index <= before.max_index /\ before.controllers[index].valid

(***************************************************************************)
(* A step: the handler's result m becomes the next state.  A handler that  *)
(* went out of bounds may have killed the process.                         *)
(***************************************************************************)
Idle == [op |-> "idle", index |-> 0, arg |-> <<>>, wfail |-> FALSE]

Step(m, op, index, arg, public) ==
    /\ pc = "running"
    /\ last = Idle
    /\ max_index' = m.max_index
    /\ controllers' = m.controllers
    /\ adapters' = m.adapters
    /\ sent' = m.sent
    /\ calls' = m.calls
    /\ ret' = IF public THEN m.ret ELSE 0
    /\ last' = [op |-> op, index |-> index, arg |-> arg,
                wfail |-> m.nfail > 0]
    /\ unacked' = m.unacked
    /\ before' = Found
    /\ pc' \in IF Aborted(m) THEN {"aborted"}
              ELSE IF m.ub THEN {"running", "aborted"} ELSE {pc}

UuidArg(uuid, svc_hint) == <<uuid.type, uuid.hi, uuid.lo, svc_hint>>

(***************************************************************************)
(* Inbound messages, as mgmt_event() dispatches them.                      *)
(***************************************************************************)
IndexAdded(index) ==
    /\ \E garbage \in Garbage(index), fail \in {"none", "all"} :
          Step(mgmt_index_added(Machine(fail), index, garbage),
               "MGMT_EV_INDEX_ADDED", index, <<>>, FALSE)

IndexRemoved(index) ==
    /\ Step(mgmt_index_removed(Machine("none"), index),
            "MGMT_EV_INDEX_REMOVED", index, <<>>, FALSE)

\* clear_uuids() may queue an entry: the queue is capped as for a request
ReadInfoComplete(index) ==
    /\ Len(controllers[index].pending_uuids) < MaxQueue
    /\ \E rp \in ReadInfoReplies, cfg \in AdapterAnswers,
          short \in BOOLEAN, fail \in WriteFailures :
          LET ev == [opcode |-> "MGMT_OP_READ_INFO", status |-> 0, data |-> rp]
              len == SizeofCmdComplete
                       + (IF short THEN SizeofReadInfo - 1 ELSE SizeofReadInfo)
          IN  Step(mgmt_cmd_complete(Machine(fail), index, ev, len,
                                     [cfg |-> cfg]),
                   "MGMT_OP_READ_INFO", index,
                   <<rp.bdaddr, rp.supported_settings, rp.current_settings,
                     len>>, FALSE)

NewSettings(index) ==
    /\ \E buf \in SettingsPayloads :
          Step(mgmt_new_settings(Machine("none"), index, buf, Len(buf)),
               "MGMT_EV_NEW_SETTINGS", index, buf, FALSE)

SetModeComplete(index) ==
    /\ \E opcode \in {"MGMT_OP_SET_POWERED", "MGMT_OP_SET_PAIRABLE"},
          buf \in SettingsPayloads :
          LET ev == [opcode |-> opcode, status |-> 0, data |-> buf]
          IN  Step(mgmt_cmd_complete(Machine("none"), index, ev,
                                     SizeofCmdComplete + Len(buf),
                                     [cfg |-> NoAnswers]),
                   opcode, index, buf, FALSE)

UuidComplete(index) ==
    /\ \E opcode \in {"MGMT_OP_ADD_UUID", "MGMT_OP_REMOVE_UUID"},
          status \in {0, MGMT_STATUS_BUSY}, buf \in CodPayloads,
          fail \in WriteFailures :
          LET ev == [opcode |-> opcode, status |-> status, data |-> buf]
          IN  Step(mgmt_cmd_complete(Machine(fail), index, ev,
                                     SizeofCmdComplete + Len(buf),
                                     [cfg |-> NoAnswers]),
                   opcode, index, <<status>> \o buf, FALSE)

CmdStatus(index) ==
    /\ \E opcode \in {"MGMT_OP_ADD_UUID", "MGMT_OP_REMOVE_UUID",
                      "MGMT_OP_SET_POWERED"},
          status \in {0, 1, MGMT_STATUS_BUSY} :
          LET ev == [opcode |-> opcode, status |-> status]
          IN  Step(mgmt_cmd_status(Machine("none"), index, ev, SizeofCmdStatus),
                   "MGMT_EV_CMD_STATUS", index, <<opcode, status>>, FALSE)

CodChanged(index) ==
    /\ \E buf \in CodPayloads, fail \in WriteFailures :
          Step(mgmt_cod_changed(Machine(fail), index, buf, Len(buf)),
               "MGMT_EV_CLASS_OF_DEV_CHANGED", index, buf, FALSE)

(***************************************************************************)
(* The public operations, called for a registered controller.              *)
(***************************************************************************)
AddUuid(index) ==
    /\ Registered(index)
    /\ Len(controllers[index].pending_uuids) < MaxQueue
    /\ \E req \in AddRequests, fail \in {"none", "all"} :
          Step(mgmt_add_uuid(Machine(fail), index, req[1], req[2]),
               "mgmt_add_uuid", index, UuidArg(req[1], req[2]), TRUE)

RemoveUuid(index) ==
    /\ Registered(index)
    /\ Len(controllers[index].pending_uuids) < MaxQueue
    /\ \E uuid \in RemoveRequests, fail \in {"none", "all"} :
          Step(mgmt_remove_uuid(Machine(fail), index, uuid),
               "mgmt_remove_uuid", index, UuidArg(uuid, 0), TRUE)

SetPowered(index) ==
    /\ Registered(index)
    /\ \E powered \in BOOLEAN, fail \in {"none", "all"} :
          Step(mgmt_set_powered(Machine(fail), index, powered),
               "mgmt_set_powered", index, <<B2I(powered)>>, TRUE)

SetDevClass(index) ==
    /\ Registered(index)
    /\ \E class \in DevClasses, fail \in {"none", "all"} :
          Step(mgmt_set_dev_class(Machine(fail), index, class[1], class[2]),
               "mgmt_set_dev_class", index, class, TRUE)

SetConnectable(index) ==
    /\ Registered(index)
    /\ \E on \in BOOLEAN, fail \in {"none", "all"} :
          Step(mgmt_set_connectable(Machine(fail), index, on),
               "mgmt_set_connectable", index, <<B2I(on)>>, TRUE)

SetDiscoverable(index) ==
    /\ Registered(index)
    /\ \E on \in BOOLEAN, fail \in {"none", "all"} :
          Step(mgmt_set_discoverable(Machine(fail), index, on, 0),
               "mgmt_set_discoverable", index, <<B2I(on)>>, TRUE)

SetPairable(index) ==
    /\ Registered(index)
    /\ \E on \in BOOLEAN, fail \in {"none", "all"} :
          Step(mgmt_set_pairable(Machine(fail), index, on),
               "mgmt_set_pairable", index, <<B2I(on)>>, TRUE)

StartDiscovery(index) ==
    /\ Registered(index)
    /\ \E fail \in {"none", "all"} :
          Step(mgmt_start_discovery(Machine(fail), index),
               "mgmt_start_discovery", index, <<>>, TRUE)

StopDiscovery(index) ==
    /\ Registered(index)
    /\ \E fail \in {"none", "all"} :
          Step(mgmt_stop_discovery(Machine(fail), index),
               "mgmt_stop_discovery", index, <<>>, TRUE)

(***************************************************************************)
(* The specification.  Init is the state mgmt_setup() leaves.              *)
(***************************************************************************)
Init ==
    /\ max_index = -1
    /\ controllers = [j \in Idx |-> ZeroInfo]
    /\ adapters = [j \in Idx |-> NoAdapter]
    /\ sent = <<Cmd("MGMT_OP_READ_VERSION", 65535, <<>>)>>
    /\ calls = <<>>
    /\ ret = 0
    /\ last = [op |-> "mgmt_setup", index |-> 65535, arg |-> <<>>,
               wfail |-> FALSE]
    /\ pc = "running"
    /\ unacked = [j \in Idx |-> [c |-> 0, r |-> 0]]
    /\ before = Found

\* The handler has returned to the main loop: its output has been observed.
MainLoop ==
    /\ pc = "running"
    /\ last # Idle
    /\ last' = Idle
    /\ sent' = <<>>
    /\ calls' = <<>>
    /\ ret' = 0
    /\ UNCHANGED <<max_index, controllers, adapters, pc, unacked>>
    /\ before' = Found

Next ==
    \/ MainLoop
    \/ \E index \in Idx :
        \/ IndexAdded(index)
        \/ IndexRemoved(index)
        \/ ReadInfoComplete(index)
        \/ NewSettings(index)
        \/ SetModeComplete(index)
        \/ UuidComplete(index)
        \/ CmdStatus(index)
        \/ CodChanged(index)
        \/ AddUuid(index)
        \/ RemoveUuid(index)
        \/ SetPowered(index)
        \/ SetDevClass(index)
        \/ SetConnectable(index)
        \/ SetDiscoverable(index)
        \/ SetPairable(index)
        \/ StartDiscovery(index)
        \/ StopDiscovery(index)

Spec == Init /\ [][Next]_vars

(***************************************************************************)
(* Devices found and connected.                                            *)
(***************************************************************************)
\* sizeof(struct mgmt_ev_device_connected), sizeof(struct mgmt_ev_device_found)
SizeofDeviceConnected == 13
SizeofDeviceFound == 14

\* ev: [eir_len, class, name]: the declared length of the EIR data, and the
\* class and name eir_parse() finds in it (0: none)
\* dev_ok: adapter_get_device() gives a device object
\* mgmt_device_connected with the test of mgmt_device_found: exactly
mgmt_device_connected_exact(m, index, ev, len, dev_ok) ==
    IF len < SizeofDeviceConnected THEN m
    ELSE IF len # SizeofDeviceConnected + ev.eir_len THEN m
    ELSE IF index > m.max_index THEN m
    ELSE LET info == m.controllers[index]
             adapter == manager_find_adapter(m, info.bdaddr)
         IN  IF adapter = NoAdapter THEN m
             ELSE IF ~dev_ok
             THEN Call(m, <<"adapter_get_device", adapter, 0>>)
             ELSE Call(Call(m, <<"adapter_get_device", adapter, 1>>),
                       <<"adapter_add_connection", adapter, 0>>)

mgmt_device_connected(m, index, ev, len, dev_ok) ==
    IF len < SizeofDeviceConnected THEN m
    ELSE IF len < SizeofDeviceConnected + ev.eir_len THEN m
    ELSE IF index > m.max_index THEN m
    ELSE LET info == m.controllers[index]
             adapter == manager_find_adapter(m, info.bdaddr)
         IN  IF adapter = NoAdapter THEN m
             ELSE IF ~dev_ok
             THEN Call(m, <<"adapter_get_device", adapter, 0>>)
             ELSE LET m1 == Call(m, <<"adapter_get_device", adapter, 1>>)
                      class == IF ev.eir_len > 0 THEN ev.class ELSE 0
                      name == IF ev.eir_len > 0 THEN ev.name ELSE 0
                      m2 == IF class # 0
                            THEN Call(m1, <<"device_set_class", adapter, class>>)
                            ELSE m1
                      m3 == Call(m2, <<"adapter_add_connection", adapter, 0>>)
                  IN  IF name # 0
                      THEN Call(Call(m3, <<"adapter_store_cached_name",
                                           adapter, name>>),
                                <<"device_set_name", adapter, name>>)
                      ELSE m3

\* mgmt_device_found with the test of mgmt_device_connected: at least
mgmt_device_found_atleast(m, index, ev, len) ==
    IF len < SizeofDeviceFound THEN m
    ELSE IF len < SizeofDeviceFound + ev.eir_len THEN m
    ELSE IF index > m.max_index THEN m
    ELSE LET info == m.controllers[index]
             adapter == manager_find_adapter(m, info.bdaddr)
         IN  IF adapter = NoAdapter THEN m
             ELSE Call(m, <<"adapter_update_found_devices", adapter,
                            ev.eir_len>>)

mgmt_device_found(m, index, ev, len) ==
    IF len < SizeofDeviceFound THEN m
    ELSE IF len # SizeofDeviceFound + ev.eir_len THEN m
    ELSE IF index > m.max_index THEN m
    ELSE LET info == m.controllers[index]
             adapter == manager_find_adapter(m, info.bdaddr)
         IN  IF adapter = NoAdapter THEN m
             ELSE Call(m, <<"adapter_update_found_devices", adapter,
                            ev.eir_len>>)

\* sizeof(struct mgmt_ev_device_disconnected): addr, reason
SizeofDeviceDisconnected == 8

\* ev: [bdaddr, type, reason]; found: adapter_find_device() finds the device.
\* A short event has no reason: MGMT_DEV_DISCONN_UNKNOWN is logged for it.
mgmt_device_disconnected(m, index, ev, len, found) ==
    IF len < SizeofAddrInfo THEN m
    ELSE IF index > m.max_index THEN m
    ELSE LET info == m.controllers[index]
             adapter == manager_find_adapter(m, info.bdaddr)
         IN  IF adapter = NoAdapter THEN m
             ELSE IF ~found
             THEN Call(m, <<"adapter_find_device", adapter, 0>>)
             ELSE Call(Call(m, <<"adapter_find_device", adapter, 1>>),
                       <<"adapter_remove_connection", adapter, ev.bdaddr>>)

\* *conns is given the list, and the controller keeps none of it.  There is
\* no test of index.
mgmt_get_conn_list(m, index) ==
    IF index > m.max_index THEN [m EXCEPT !.ub = TRUE]
    ELSE LET info == m.controllers[index]
         IN  Return(SetInfo(Call(m, <<"*conns", index, info.connections>>),
                            index, [info EXCEPT !.connections = <<>>]), 0)

(***************************************************************************)
(* The reader of the management socket.                                    *)
(***************************************************************************)
MGMT_HDR_SIZE == 6

\* mgmt_event with a test of "at least" on the received length
mgmt_event_atleast(m, cond, nread, hdr, body, in) ==
    IF cond = "G_IO_NVAL" THEN Return(m, 0)
    ELSE IF cond \in {"G_IO_ERR", "G_IO_HUP"} THEN Return(m, 0)
    ELSE IF nread < 0 THEN Return(m, 1)
    ELSE IF nread < MGMT_HDR_SIZE THEN Return(m, 1)
    ELSE IF nread < MGMT_HDR_SIZE + hdr.len THEN Return(m, 1)
    ELSE LET index == hdr.index
             len == hdr.len
             m1 == CASE hdr.opcode = "MGMT_EV_CMD_COMPLETE" ->
                            mgmt_cmd_complete(m, index, body, len, in)
                     [] hdr.opcode = "MGMT_EV_CMD_STATUS" ->
                            mgmt_cmd_status(m, index, body, len)
                     [] hdr.opcode = "MGMT_EV_INDEX_ADDED" ->
                            mgmt_index_added(m, index, in.garbage)
                     [] hdr.opcode = "MGMT_EV_INDEX_REMOVED" ->
                            mgmt_index_removed(m, index)
                     [] hdr.opcode = "MGMT_EV_NEW_SETTINGS" ->
                            mgmt_new_settings(m, index, body, len)
                     [] hdr.opcode = "MGMT_EV_CLASS_OF_DEV_CHANGED" ->
                            mgmt_cod_changed(m, index, body, len)
                     [] hdr.opcode = "MGMT_EV_DEVICE_CONNECTED" ->
                            mgmt_device_connected(m, index, body, len,
                                                  in.dev_ok)
                     [] hdr.opcode = "MGMT_EV_DEVICE_DISCONNECTED" ->
                            mgmt_device_disconnected(m, index, body, len,
                                                     in.dev_ok)
                     [] hdr.opcode = "MGMT_EV_DEVICE_FOUND" ->
                            mgmt_device_found(m, index, body, len)
                     [] OTHER -> m
         IN  Return(m1, 1)

\* cond: the condition of the I/O watch; nread: what read() returns;
\* hdr: [opcode, index, len] of struct mgmt_hdr; body: what follows it;
\* in: the answers of the collaborators ([cfg, garbage, dev_ok]).
\* The result is the gboolean returned: 0 removes the watch.
mgmt_event(m, cond, nread, hdr, body, in) ==
    IF cond = "G_IO_NVAL" THEN Return(m, 0)
    ELSE IF cond \in {"G_IO_ERR", "G_IO_HUP"} THEN Return(m, 0)
    ELSE IF nread < 0 THEN Return(m, 1)
    ELSE IF nread < MGMT_HDR_SIZE THEN Return(m, 1)
    ELSE IF nread # MGMT_HDR_SIZE + hdr.len THEN Return(m, 1)
    ELSE LET index == hdr.index
             len == hdr.len
             m1 == CASE hdr.opcode = "MGMT_EV_CMD_COMPLETE" ->
                            mgmt_cmd_complete(m, index, body, len, in)
                     [] hdr.opcode = "MGMT_EV_CMD_STATUS" ->
                            mgmt_cmd_status(m, index, body, len)
                     [] hdr.opcode = "MGMT_EV_INDEX_ADDED" ->
                            mgmt_index_added(m, index, in.garbage)
                     [] hdr.opcode = "MGMT_EV_INDEX_REMOVED" ->
                            mgmt_index_removed(m, index)
                     [] hdr.opcode = "MGMT_EV_NEW_SETTINGS" ->
                            mgmt_new_settings(m, index, body, len)
                     [] hdr.opcode = "MGMT_EV_CLASS_OF_DEV_CHANGED" ->
                            mgmt_cod_changed(m, index, body, len)
                     [] hdr.opcode = "MGMT_EV_DEVICE_CONNECTED" ->
                            mgmt_device_connected(m, index, body, len,
                                                  in.dev_ok)
                     [] hdr.opcode = "MGMT_EV_DEVICE_DISCONNECTED" ->
                            mgmt_device_disconnected(m, index, body, len,
                                                     in.dev_ok)
                     [] hdr.opcode = "MGMT_EV_DEVICE_FOUND" ->
                            mgmt_device_found(m, index, body, len)
                     [] OTHER -> m
         IN  Return(m1, 1)

(***************************************************************************)
(* The reader at work: messages, whole and cut, as read() may deliver      *)
(* them.  A message is [opcode, body, size], size the bytes of its body.   *)
(***************************************************************************)
EirFive == [eir_len |-> 5, class |-> 4, name |-> 7]
EirNone == [eir_len |-> 0, class |-> 0, name |-> 0]

Msg(opcode, body, size) == [opcode |-> opcode, body |-> body, size |-> size]

Complete(opcode, data, size) ==
    Msg("MGMT_EV_CMD_COMPLETE",
        [opcode |-> opcode, status |-> 0, data |-> data],
        SizeofCmdComplete + size)

Messages ==
    << Complete("MGMT_OP_READ_INFO",
                [bdaddr |-> 1, supported_settings |-> 731,
                 current_settings |-> 1, name |-> 1], SizeofReadInfo),
       Complete("MGMT_OP_READ_INFO",
                [bdaddr |-> 1, supported_settings |-> 731,
                 current_settings |-> 1, name |-> 1], SizeofReadInfo - 1),
       Complete("MGMT_OP_SET_POWERED", <<1, 0, 0, 0>>, 4),
       Complete("MGMT_OP_SET_POWERED", <<1, 0>>, 2),
       Complete("MGMT_OP_ADD_UUID", <<4, 1, 0>>, 3),
       Complete("MGMT_OP_ADD_UUID", <<4>>, 1),
       Complete("MGMT_OP_REMOVE_UUID", <<4>>, 1),
       Msg("MGMT_EV_CMD_COMPLETE",
           [opcode |-> "MGMT_OP_ADD_UUID", status |-> 0, data |-> <<>>],
           SizeofCmdComplete - 1),
       Msg("MGMT_EV_CMD_STATUS",
           [opcode |-> "MGMT_OP_ADD_UUID", status |-> MGMT_STATUS_BUSY],
           SizeofCmdStatus),
       Msg("MGMT_EV_CMD_STATUS",
           [opcode |-> "MGMT_OP_ADD_UUID", status |-> MGMT_STATUS_BUSY],
           SizeofCmdStatus - 1),
       Msg("MGMT_EV_INDEX_ADDED", <<>>, 0),
       Msg("MGMT_EV_INDEX_REMOVED", <<>>, 0),
       Msg("MGMT_EV_NEW_SETTINGS", <<0, 0, 0, 0>>, 4),
       Msg("MGMT_EV_NEW_SETTINGS", <<1, 0>>, 2),
       Msg("MGMT_EV_CLASS_OF_DEV_CHANGED", <<4, 1, 0>>, 3),
       Msg("MGMT_EV_CLASS_OF_DEV_CHANGED", <<4>>, 1),
       Msg("MGMT_EV_DEVICE_FOUND", EirFive, SizeofDeviceFound + 5),
       Msg("MGMT_EV_DEVICE_FOUND", EirFive, SizeofDeviceFound + 3),
       Msg("MGMT_EV_DEVICE_FOUND", EirFive, SizeofDeviceFound + 6),
       Msg("MGMT_EV_DEVICE_FOUND", EirNone, SizeofDeviceFound - 1),
       Msg("MGMT_EV_DEVICE_CONNECTED", EirFive, SizeofDeviceConnected + 5),
       Msg("MGMT_EV_DEVICE_CONNECTED", EirFive, SizeofDeviceConnected + 3),
       Msg("MGMT_EV_DEVICE_CONNECTED", EirFive, SizeofDeviceConnected + 6),
       Msg("MGMT_EV_DEVICE_CONNECTED", EirNone, SizeofDeviceConnected - 1),
       Complete("MGMT_OP_READ_VERSION", [version |-> 1, revision |-> 0],
                SizeofReadVersion),
       Complete("MGMT_OP_READ_VERSION", [version |-> 0, revision |-> 9],
                SizeofReadVersion),
       Complete("MGMT_OP_READ_VERSION", [version |-> 1, revision |-> 0],
                SizeofReadVersion - 1),
       Complete("MGMT_OP_READ_INDEX_LIST",
                [num_controllers |-> 1, index |-> <<0>>],
                SizeofReadIndexList + 2),
       Complete("MGMT_OP_READ_INDEX_LIST",
                [num_controllers |-> 1, index |-> <<0>>],
                SizeofReadIndexList + 3),
       Msg("MGMT_EV_UNKNOWN", <<>>, 0) >>

\* the answers of the collaborators
Answers ==
    << [cfg |-> [reg_ok |-> TRUE, name |-> 0, major |-> 1, minor |-> 4],
        dev_ok |-> TRUE],
       [cfg |-> [reg_ok |-> FALSE, name |-> 0, major |-> 1, minor |-> 4],
        dev_ok |-> FALSE] >>

\* What read() returns for a message of size bytes: all of it, a piece
\* shorter than a header, or an error.
ReadResults(size) == {MGMT_HDR_SIZE + size, MGMT_HDR_SIZE - 1, -1}

\* The length the header declares: that of the body, or one off.
DeclaredLens(size) == {len \in {size - 1, size, size + 1} : len >= 0}

\* The step of the reader: as Step, and when mgmt_event returns FALSE the
\* watch is removed and nothing is received any more.
StepRead(m, index, arg) ==
    /\ pc = "running"
    /\ last = Idle
    /\ max_index' = m.max_index
    /\ controllers' = m.controllers
    /\ adapters' = m.adapters
    /\ sent' = m.sent
    /\ calls' = m.calls
    /\ ret' = m.ret
    /\ last' = [op |-> "mgmt_event", index |-> index, arg |-> arg,
                wfail |-> m.nfail > 0]
    /\ unacked' = m.unacked
    /\ before' = Found
    /\ pc' \in IF Aborted(m) THEN {"aborted"}
              ELSE IF m.ret = 0 THEN {"closed"}
              ELSE IF m.ub THEN {"running", "aborted"} ELSE {pc}

\* One run of mgmt_event: message k arrives for index; read() returns
\* nread, the header declares len bytes.
ReadEvent(index) ==
    /\ Len(controllers[index].pending_uuids) < MaxQueue
    /\ \E k \in 1..Len(Messages), a \in 1..Len(Answers),
          fail \in {"none", "all"}, garbage \in Garbage(index) :
          \E nread \in ReadResults(Messages[k].size),
             len \in DeclaredLens(Messages[k].size) :
             StepRead(mgmt_event(Machine(fail), "G_IO_IN", nread,
                                 [opcode |-> Messages[k].opcode,
                                  index |-> index, len |-> len],
                                 Messages[k].body,
                                 [cfg |-> Answers[a].cfg,
                                  dev_ok |-> Answers[a].dev_ok,
                                  garbage |-> garbage]),
                      index, <<k, "G_IO_IN", nread, len>>)

\* The watch reports an error or an invalid descriptor: nothing is read.
WatchError(index) ==
    /\ \E cond \in {"G_IO_ERR", "G_IO_HUP", "G_IO_NVAL"} :
          StepRead(mgmt_event(Machine("none"), cond, 0,
                              [opcode |-> "MGMT_EV_UNKNOWN",
                               index |-> index, len |-> 0],
                              <<>>,
                              [cfg |-> Answers[1].cfg,
                               dev_ok |-> Answers[1].dev_ok,
                               garbage |-> NoGarbage]),
                   index, <<Len(Messages), cond, 0, 0>>)

NextFrame ==
    \/ MainLoop
    \/ \E index \in Idx :
        \/ ReadEvent(index)
        \/ WatchError(index)
        \/ AddUuid(index)

SpecFrame == Init /\ [][NextFrame]_vars

(***************************************************************************)
(* The controller table with several indices: controllers come and go in   *)
(* any order while requests are made of them.                              *)
(***************************************************************************)
MaxRegIndex == 2

RegIdx == 0..MaxRegIndex

InitRegistry ==
    /\ max_index = -1
    /\ controllers = [j \in RegIdx |-> ZeroInfo]
    /\ adapters = [j \in RegIdx |-> NoAdapter]
    /\ sent = <<Cmd("MGMT_OP_READ_VERSION", 65535, <<>>)>>
    /\ calls = <<>>
    /\ ret = 0
    /\ last = [op |-> "mgmt_setup", index |-> 65535, arg |-> <<>>,
               wfail |-> FALSE]
    /\ pc = "running"
    /\ unacked = [j \in RegIdx |-> [c |-> 0, r |-> 0]]
    /\ before = Found

NextRegistry ==
    \/ MainLoop
    \/ \E index \in RegIdx :
        \/ IndexAdded(index)
        \/ IndexRemoved(index)
        \/ AddUuid(index)
        \/ SetPowered(index)

SpecRegistry == InitRegistry /\ [][NextRegistry]_vars

(***************************************************************************)
(* Start-up: the replies to READ_VERSION and READ_INDEX_LIST, and          *)
(* controllers that come and go, over the table of several indices.        *)
(***************************************************************************)
\* replies to READ_VERSION, whole and one byte short
VersionReplies ==
    {[rp |-> [version |-> 1, revision |-> 0], len |-> SizeofReadVersion],
     [rp |-> [version |-> 0, revision |-> 9], len |-> SizeofReadVersion],
     [rp |-> [version |-> 1, revision |-> 0], len |-> SizeofReadVersion - 1]}

IndexLists == {<<>>, <<0>>, <<2>>, <<0, 1>>, <<2, 0>>}

\* replies to READ_INDEX_LIST: the count and the length agree with the
\* list, the length is one byte more, the length is that of one index
\* more, or the reply is shorter than the count
IndexListReplies ==
    UNION {{[rp |-> [num_controllers |-> Len(list), index |-> list],
             len |-> len] :
               len \in {SizeofReadIndexList + 2 * Len(list),
                        SizeofReadIndexList + 2 * Len(list) + 1,
                        SizeofReadIndexList + 2 * Len(list) + 2,
                        SizeofReadIndexList - 1}} :
           list \in IndexLists}

\* every slot beyond max_index may hold what g_realloc() left
GarbageBeyond == Garbage(MaxRegIndex + 1)

ReadVersionComplete ==
    /\ \E reply \in VersionReplies, fail \in {"none", "all"} :
          Step(mgmt_cmd_complete(Machine(fail), MGMT_INDEX_NONE,
                                 [opcode |-> "MGMT_OP_READ_VERSION",
                                  status |-> 0, data |-> reply.rp],
                                 SizeofCmdComplete + reply.len,
                                 [garbage |-> NoGarbage]),
               "MGMT_OP_READ_VERSION", MGMT_INDEX_NONE,
               <<reply.rp.version, reply.len>>, FALSE)

ReadIndexListComplete ==
    /\ \E reply \in IndexListReplies, fail \in WriteFailures,
          garbage \in GarbageBeyond :
          Step(mgmt_cmd_complete(Machine(fail), MGMT_INDEX_NONE,
                                 [opcode |-> "MGMT_OP_READ_INDEX_LIST",
                                  status |-> 0, data |-> reply.rp],
                                 SizeofCmdComplete + reply.len,
                                 [garbage |-> garbage]),
               "MGMT_OP_READ_INDEX_LIST", MGMT_INDEX_NONE,
               <<reply.rp.index, reply.len>>, FALSE)

NextStartup ==
    \/ MainLoop
    \/ ReadVersionComplete
    \/ ReadIndexListComplete
    \/ \E index \in RegIdx :
        \/ IndexAdded(index)
        \/ IndexRemoved(index)

SpecStartup == InitRegistry /\ [][NextStartup]_vars

(***************************************************************************)
(* The public operations of one controller, without the completions: what  *)
(* each transmits and returns, with the radio bits of the settings         *)
(* changing under them.                                                    *)
(***************************************************************************)
\* settings events that change the radio bits: BR/EDR, LE, both
RadioPayloads == {<<128, 0, 0, 0>>, <<0, 2, 0, 0>>, <<128, 2, 0, 0>>}

RadioSettings(index) ==
    /\ \E buf \in RadioPayloads :
          Step(mgmt_new_settings(Machine("none"), index, buf, Len(buf)),
               "MGMT_EV_NEW_SETTINGS", index, buf, FALSE)

StartLeScanning(index) ==
    /\ Registered(index)
    /\ \E fail \in {"none", "all"} :
          Step(mgmt_start_le_scanning(Machine(fail), index),
               "mgmt_start_le_scanning", index, <<>>, TRUE)

Disconnect(index) ==
    /\ Registered(index)
    /\ \E fail \in {"none", "all"} :
          Step(mgmt_disconnect(Machine(fail), index, 2, 0),
               "mgmt_disconnect", index, <<>>, TRUE)

PincodeReply(index) ==
    /\ Registered(index)
    /\ \E pin \in {<<0, 0>>, <<7, 4>>, <<7, 17>>}, fail \in {"none", "all"} :
          Step(mgmt_pincode_reply(Machine(fail), index, 2, pin[1], pin[2]),
               "mgmt_pincode_reply", index, pin, TRUE)

ConfirmReply(index) ==
    /\ Registered(index)
    /\ \E success \in BOOLEAN, fail \in {"none", "all"} :
          Step(mgmt_confirm_reply(Machine(fail), index, 2, 0, success),
               "mgmt_confirm_reply", index, <<B2I(success)>>, TRUE)

PasskeyReply(index) ==
    /\ Registered(index)
    /\ \E passkey \in {<<1, 57920>>, INVALID_PASSKEY}, fail \in {"none", "all"} :
          Step(mgmt_passkey_reply(Machine(fail), index, 2, 0, passkey),
               "mgmt_passkey_reply", index, passkey, TRUE)

SetFastConnectable(index) ==
    /\ Registered(index)
    /\ \E fail \in {"none", "all"} :
          Step(mgmt_set_fast_connectable(Machine(fail), index, TRUE),
               "mgmt_set_fast_connectable", index, <<>>, TRUE)

BlockDevice(index) ==
    /\ Registered(index)
    /\ \E fail \in {"none", "all"} :
          Step(mgmt_block_device(Machine(fail), index, 2, 0),
               "mgmt_block_device", index, <<>>, TRUE)

UnblockDevice(index) ==
    /\ Registered(index)
    /\ \E fail \in {"none", "all"} :
          Step(mgmt_unblock_device(Machine(fail), index, 2, 0),
               "mgmt_unblock_device", index, <<>>, TRUE)

UnpairDevice(index) ==
    /\ Registered(index)
    /\ \E fail \in {"none", "all"} :
          Step(mgmt_unpair_device(Machine(fail), index, 2, 0),
               "mgmt_unpair_device", index, <<>>, TRUE)

SetDid(index) ==
    /\ Registered(index)
    /\ \E fail \in {"none", "all"} :
          Step(mgmt_set_did(Machine(fail), index, 1, 2, 3, 4),
               "mgmt_set_did", index, <<>>, TRUE)

LoadLinkKeys(index) ==
    /\ Registered(index)
    /\ \E alloc_ok \in BOOLEAN, fail \in {"none", "all"} :
          Step(mgmt_load_link_keys(Machine(fail), index, 1, FALSE, alloc_ok),
               "mgmt_load_link_keys", index, <<B2I(alloc_ok)>>, TRUE)

SetIoCapability(index) ==
    /\ Registered(index)
    /\ \E fail \in {"none", "all"} :
          Step(mgmt_set_io_capability(Machine(fail), index, 3),
               "mgmt_set_io_capability", index, <<>>, TRUE)

CreateBonding(index) ==
    /\ Registered(index)
    /\ \E fail \in {"none", "all"} :
          Step(mgmt_create_bonding(Machine(fail), index, 2, 0, 3),
               "mgmt_create_bonding", index, <<>>, TRUE)

CancelBonding(index) ==
    /\ Registered(index)
    /\ \E fail \in {"none", "all"} :
          Step(mgmt_cancel_bonding(Machine(fail), index, 2),
               "mgmt_cancel_bonding", index, <<>>, TRUE)

ReadLocalOobData(index) ==
    /\ Registered(index)
    /\ \E fail \in {"none", "all"} :
          Step(mgmt_read_local_oob_data(Machine(fail), index),
               "mgmt_read_local_oob_data", index, <<>>, TRUE)

AddRemoteOobData(index) ==
    /\ Registered(index)
    /\ \E fail \in {"none", "all"} :
          Step(mgmt_add_remote_oob_data(Machine(fail), index, 2, 5, 6),
               "mgmt_add_remote_oob_data", index, <<>>, TRUE)

RemoveRemoteOobData(index) ==
    /\ Registered(index)
    /\ \E fail \in {"none", "all"} :
          Step(mgmt_remove_remote_oob_data(Machine(fail), index, 2),
               "mgmt_remove_remote_oob_data", index, <<>>, TRUE)

ConfirmName(index) ==
    /\ Registered(index)
    /\ \E fail \in {"none", "all"} :
          Step(mgmt_confirm_name(Machine(fail), index, 2, 0, TRUE),
               "mgmt_confirm_name", index, <<>>, TRUE)

LoadLtks(index) ==
    /\ Registered(index)
    /\ \E alloc_ok \in BOOLEAN, fail \in {"none", "all"} :
          Step(mgmt_load_ltks(Machine(fail), index, 1, alloc_ok),
               "mgmt_load_ltks", index, <<B2I(alloc_ok)>>, TRUE)

SetName(index) ==
    /\ Registered(index)
    /\ \E fail \in {"none", "all"} :
          Step(mgmt_set_name(Machine(fail), index, 2),
               "mgmt_set_name", index, <<>>, TRUE)

NextOps ==
    \/ MainLoop
    \/ \E index \in Idx :
        \/ IndexAdded(index)
        \/ ReadInfoComplete(index)
        \/ RadioSettings(index)
        \/ AddUuid(index)
        \/ RemoveUuid(index)
        \/ SetPowered(index)
        \/ SetDevClass(index)
        \/ SetConnectable(index)
        \/ SetDiscoverable(index)
        \/ SetPairable(index)
        \/ StartDiscovery(index)
        \/ StartLeScanning(index)
        \/ StopDiscovery(index)
        \/ Disconnect(index)
        \/ PincodeReply(index)
        \/ ConfirmReply(index)
        \/ PasskeyReply(index)
        \/ SetFastConnectable(index)
        \/ BlockDevice(index)
        \/ UnblockDevice(index)
        \/ UnpairDevice(index)
        \/ SetDid(index)
        \/ LoadLinkKeys(index)
        \/ SetIoCapability(index)
        \/ CreateBonding(index)
        \/ CancelBonding(index)
        \/ ReadLocalOobData(index)
        \/ AddRemoteOobData(index)
        \/ RemoveRemoteOobData(index)
        \/ ConfirmName(index)
        \/ LoadLtks(index)
        \/ SetName(index)

SpecOps == Init /\ [][NextOps]_vars

(***************************************************************************)
(* Bring-up: read-info replies that differ in address and settings, and    *)
(* the messages that may follow them.                                      *)
(***************************************************************************)
\* a dual-mode controller (supported 0x2db) with nothing on, with pairable
\* on, with pairable, SSP and LE on; and a controller (supported 0x8b) that
\* knows none of the three
BringUpReplies ==
    {[bdaddr |-> 1, supported_settings |-> 731, current_settings |-> cur,
      name |-> 1] : cur \in {0, 16, 592}}
    \cup {[bdaddr |-> 2, supported_settings |-> 139, current_settings |-> 0,
           name |-> 1]}

ReadInfoReply(index) ==
    /\ Len(controllers[index].pending_uuids) < MaxQueue
    /\ \E rp \in BringUpReplies, cfg \in AdapterAnswers,
          short \in BOOLEAN, fail \in WriteFailures :
          LET ev == [opcode |-> "MGMT_OP_READ_INFO", status |-> 0, data |-> rp]
              len == SizeofCmdComplete
                       + (IF short THEN SizeofReadInfo - 1 ELSE SizeofReadInfo)
          IN  Step(mgmt_cmd_complete(Machine(fail), index, ev, len,
                                     [cfg |-> cfg]),
                   "MGMT_OP_READ_INFO", index,
                   <<rp.bdaddr, rp.supported_settings, rp.current_settings,
                     len>>, FALSE)

OobStatus(index) ==
    /\ \E status \in {0, 1, MGMT_STATUS_BUSY} :
          LET ev == [opcode |-> "MGMT_OP_READ_LOCAL_OOB_DATA",
                     status |-> status]
          IN  Step(mgmt_cmd_status(Machine("none"), index, ev, SizeofCmdStatus),
                   "MGMT_EV_CMD_STATUS", index,
                   <<"MGMT_OP_READ_LOCAL_OOB_DATA", status>>, FALSE)

NextBringUp ==
    \/ MainLoop
    \/ \E index \in Idx :
        \/ IndexAdded(index)
        \/ IndexRemoved(index)
        \/ ReadInfoReply(index)
        \/ NewSettings(index)
        \/ SetModeComplete(index)
        \/ UuidComplete(index)
        \/ CmdStatus(index)
        \/ OobStatus(index)
        \/ CodChanged(index)

SpecBringUp == Init /\ [][NextBringUp]_vars

(***************************************************************************)
(* Peers: the replies to GET_CONNECTIONS, the events of devices that       *)
(* connect and disconnect, the adapter taking the list of connections,     *)
(* and the completion of SET_DEV_CLASS.                                    *)
(***************************************************************************)
MaxConns == 3

Peers == <<[bdaddr |-> 11, type |-> 0], [bdaddr |-> 12, type |-> 1]>>

\* what the read buffer holds past a reply
StaleBytes == {0, 255}

\* replies to GET_CONNECTIONS: whole, with sizeof(bdaddr_t) bytes for each
\* entry, and one byte shorter than that
Snapshots ==
    UNION {{[rp |-> [conn_count |-> n, addr |-> SubSeq(Peers, 1, n)],
             len |-> len] :
               len \in {SizeofGetConnections + n * SizeofAddrInfo,
                        SizeofGetConnections + n * SizeofBdaddr,
                        SizeofGetConnections + n * SizeofBdaddr - 1}} :
           n \in 0..Len(Peers)}

GetConnectionsComplete(index) ==
    /\ \E reply \in Snapshots, stale \in StaleBytes :
          /\ Len(controllers[index].connections) + reply.rp.conn_count
                 <= MaxConns
          /\ Step(mgmt_cmd_complete(Machine("none"), index,
                      [opcode |-> "MGMT_OP_GET_CONNECTIONS", status |-> 0,
                       data |-> reply.rp],
                      SizeofCmdComplete + reply.len, [stale |-> stale]),
                  "MGMT_OP_GET_CONNECTIONS", index,
                  <<reply.rp.addr, reply.len, stale>>, FALSE)

DeviceConnected(index) ==
    /\ \E ev \in {EirFive, EirNone}, short \in BOOLEAN, dev_ok \in BOOLEAN :
          Step(mgmt_device_connected(Machine("none"), index, ev,
                   SizeofDeviceConnected + ev.eir_len
                       - (IF short THEN 1 ELSE 0), dev_ok),
               "MGMT_EV_DEVICE_CONNECTED", index,
               <<ev.eir_len, short, dev_ok>>, FALSE)

DeviceDisconnected(index) ==
    /\ \E k \in 1..Len(Peers), found \in BOOLEAN,
          len \in {SizeofDeviceDisconnected, SizeofAddrInfo,
                   SizeofAddrInfo - 1} :
          Step(mgmt_device_disconnected(Machine("none"), index,
                   [bdaddr |-> Peers[k].bdaddr, type |-> Peers[k].type,
                    reason |-> 0], len, found),
               "MGMT_EV_DEVICE_DISCONNECTED", index,
               <<Peers[k].bdaddr, len, found>>, FALSE)

GetConnList(index) ==
    /\ Step(mgmt_get_conn_list(Machine("none"), index),
            "mgmt_get_conn_list", index, <<>>, TRUE)

SetDevClassComplete(index) ==
    /\ \E buf \in CodPayloads, status \in {0, MGMT_STATUS_BUSY} :
          Step(mgmt_cmd_complete(Machine("none"), index,
                   [opcode |-> "MGMT_OP_SET_DEV_CLASS", status |-> status,
                    data |-> buf], SizeofCmdComplete + Len(buf),
                   [stale |-> 0]),
               "MGMT_OP_SET_DEV_CLASS", index, <<buf, status>>, FALSE)

NextPeers ==
    \/ MainLoop
    \/ \E index \in Idx :
        \/ IndexAdded(index)
        \/ IndexRemoved(index)
        \/ ReadInfoComplete(index)
        \/ GetConnectionsComplete(index)
        \/ DeviceConnected(index)
        \/ DeviceDisconnected(index)
        \/ GetConnList(index)
        \/ SetDevClassComplete(index)

SpecPeers == Init /\ [][NextPeers]_vars

(***************************************************************************)
(* The bytes of an outbound command.  A buffer is kept as the six bytes of *)
(* its header and the number of bytes handed to write().                   *)
(***************************************************************************)
\* the two bytes of (uint16_t) x, least significant first
htobs(x) == <<x % 256, (x \div 256) % 256>>

bt_get_le16(b) == b[1] + 256 * b[2]

\* struct mgmt_hdr: opcode, index, len
mgmt_hdr(opcode, index, len) == opcode \o index \o len

\* memset(&hdr, 0, sizeof(hdr)), opcode and index set, write of sizeof(hdr):
\* mgmt_setup, read_version_complete, read_info, get_connections,
\* mgmt_read_local_oob_data
buf_header(opcode, index) ==
    [hdr |-> mgmt_hdr(htobs(opcode), htobs(index), <<0, 0>>),
     written |-> MGMT_HDR_SIZE]

\* char buf[MGMT_HDR_SIZE + sizeof(*cp)], hdr->len = htobs(sizeof(*cp)),
\* write of sizeof(buf): size is sizeof(*cp)
buf_fixed(opcode, index, size) ==
    [hdr |-> mgmt_hdr(htobs(opcode), htobs(index), htobs(size)),
     written |-> MGMT_HDR_SIZE + size]

\* sizeof(struct mgmt_mode)
SizeofMode == 1

buf_set_mode(index, opcode, val) == buf_fixed(opcode, index, SizeofMode)

\* sizeof(struct mgmt_cp_load_link_keys), sizeof(struct mgmt_link_key_info)
SizeofLoadLinkKeys == 3
SizeofLinkKeyInfo == 25

buf_load_link_keys(opcode, index, key_count) ==
    LET cp_size == SizeofLoadLinkKeys + key_count * SizeofLinkKeyInfo
    IN  [hdr |-> mgmt_hdr(htobs(opcode), htobs(index), htobs(cp_size)),
         written |-> MGMT_HDR_SIZE + cp_size]

\* sizeof(struct mgmt_cp_load_long_term_keys), sizeof(struct mgmt_ltk_info)
SizeofLoadLtks == 2
SizeofLtkInfo == 36

buf_load_ltks(opcode, index, key_count) ==
    LET cp_size == SizeofLoadLtks + key_count * SizeofLtkInfo
    IN  [hdr |-> mgmt_hdr(htobs(opcode), htobs(index), htobs(cp_size)),
         written |-> MGMT_HDR_SIZE + cp_size]

\* opcodes and indexes that use one byte, the other, or both
WireOpcodes == {1, 37, 256, 65535}
WireIndexes == {0, 1, 258, MGMT_INDEX_NONE}

\* lengths of a key list: none, a few, and so many that the parameters
\* exceed 65535 bytes
KeyCounts == {0, 1, 2, 1820, 2622}

\* one buffer written by a public operation or a helper
StepWire(buf, op, opcode, index, arg) ==
    /\ pc = "running"
    /\ last = Idle
    /\ sent' = <<buf>>
    /\ last' = [op |-> op, index |-> index, arg |-> <<opcode>> \o arg,
                wfail |-> FALSE]
    /\ calls' = <<>>
    /\ ret' = 0
    /\ UNCHANGED <<max_index, controllers, adapters, pc, unacked>>
    /\ before' = Found

WireHeader ==
    \E opcode \in WireOpcodes, index \in WireIndexes :
        StepWire(buf_header(opcode, index), "header", opcode, index, <<>>)

WireSetMode ==
    \E opcode \in WireOpcodes, index \in WireIndexes, val \in {0, 1} :
        StepWire(buf_set_mode(index, opcode, val), "mgmt_set_mode", opcode,
                 index, <<val>>)

\* sizeof(*cp): from the mode byte to the local name
WireFixed ==
    \E opcode \in WireOpcodes, index \in WireIndexes,
       size \in {1, 3, 7, 260} :
        StepWire(buf_fixed(opcode, index, size), "fixed", opcode, index,
                 <<size>>)

WireLoadLinkKeys ==
    \E opcode \in WireOpcodes, index \in WireIndexes,
       key_count \in KeyCounts :
        StepWire(buf_load_link_keys(opcode, index, key_count),
                 "mgmt_load_link_keys", opcode, index, <<key_count>>)

WireLoadLtks ==
    \E opcode \in WireOpcodes, index \in WireIndexes,
       key_count \in KeyCounts :
        StepWire(buf_load_ltks(opcode, index, key_count),
                 "mgmt_load_ltks", opcode, index, <<key_count>>)

\* the main loop is idle after mgmt_setup
InitWire ==
    /\ max_index = -1
    /\ controllers = [j \in Idx |-> ZeroInfo]
    /\ adapters = [j \in Idx |-> NoAdapter]
    /\ sent = <<>>
    /\ calls = <<>>
    /\ ret = 0
    /\ last = Idle
    /\ pc = "running"
    /\ unacked = [j \in Idx |-> [c |-> 0, r |-> 0]]
    /\ before = Found

NextWire ==
    \/ MainLoop
    \/ WireHeader
    \/ WireSetMode
    \/ WireFixed
    \/ WireLoadLinkKeys
    \/ WireLoadLtks

SpecWire == InitWire /\ [][NextWire]_vars

(***************************************************************************)
(* Vocabulary of the properties.                                           *)
(***************************************************************************)
UuidCompletionOps == {"MGMT_OP_ADD_UUID", "MGMT_OP_REMOVE_UUID"}

\* the commands of a sequence that are UUID commands for index
UuidCmdsFor(seq, index) ==
    SelectSeq(seq, LAMBDA cmd : IsUuidCmd(cmd) /\ cmd[2] = index)

\* the step just taken delivered a UUID completion for index to its handler
IsUuidCompletion(l, index) ==
    l.op \in UuidCompletionOps /\ l.index = index

(***************************************************************************)
(* C1 as stated: for every controller, no two UUID (add or remove)         *)
(* commands are ever transmitted without a completion event for the        *)
(* earlier one arriving in between.                                        *)
(***************************************************************************)
C1_AsStated == \A index \in Idx : unacked[index].c <= 1

(***************************************************************************)
(* C1 amended: no two UUID commands are transmitted for a controller       *)
(* without, in between, a UUID completion, a class-of-device-changed event *)
(* taken as the retry of a busy add, a settings event that turns the power *)
(* off, or the controller's slot being registered or removed.              *)
(***************************************************************************)
C1_SingleFlight == \A index \in Idx : unacked[index].r <= 1

\* a completion has drained a queued request, which is now the one in flight
C1_Witness ==
    \E index \in Idx :
        /\ IsUuidCompletion(last, index)
        /\ Len(UuidCmdsFor(sent, index)) = 1
        /\ unacked[index].r = 1
        /\ controllers[index].pending_uuid

(***************************************************************************)
(* More vocabulary.  A handler's step goes from the idle state before it   *)
(* to the state it leaves: before holds what the step found, the other     *)
(* variables what it left, and last names the message or call.             *)
(***************************************************************************)
IsUuidRequest(l, index) ==
    l.op \in {"mgmt_add_uuid", "mgmt_remove_uuid"} /\ l.index = index

\* the request's uuid_t reaches the wire as a 128-bit value: a 16- or 32-bit
\* one placed in the Bluetooth base UUID
WireUuid(type, hi, lo) == IF type = 128 THEN <<hi, lo>> ELSE <<hi, LoBase>>

\* the request names a 16-bit UUID, in any of its forms, or the wildcard
Names16Bit(type, hi, lo) ==
    \/ type = 16
    \/ type = 32 /\ hi < 65536
    \/ type = 128 /\ lo = LoBase /\ hi < 65536
    \/ type = 128 /\ lo = LoZero /\ hi = 0

\* the command and the queue entry a request l stands for
RequestCmd(l) ==
    IF l.op = "mgmt_add_uuid"
    THEN <<"MGMT_OP_ADD_UUID", l.index,
           WireUuid(l.arg[1], l.arg[2], l.arg[3]) \o <<l.arg[4]>> >>
    ELSE <<"MGMT_OP_REMOVE_UUID", l.index,
           WireUuid(l.arg[1], l.arg[2], l.arg[3])>>

RequestEntry(l) ==
    [add |-> l.op = "mgmt_add_uuid",
     uuid |-> [type |-> l.arg[1], hi |-> l.arg[2], lo |-> l.arg[3]],
     svc_hint |-> l.arg[4]]

\* the command a queue entry stands for
EntryCmd(entry, index) ==
    IF entry.add
    THEN <<"MGMT_OP_ADD_UUID", index,
           WireUuid(entry.uuid.type, entry.uuid.hi, entry.uuid.lo)
               \o <<entry.svc_hint>> >>
    ELSE <<"MGMT_OP_REMOVE_UUID", index,
           WireUuid(entry.uuid.type, entry.uuid.hi, entry.uuid.lo)>>

\* a class-of-device event that finds the busy flag set drains like a completion
IsBusyRetry(l, index) ==
    /\ l.op = "MGMT_EV_CLASS_OF_DEV_CHANGED" /\ l.index = index
    /\ index <= before.max_index /\ before.controllers[index].pending_cod_change

(***************************************************************************)
(* C2 as stated: a UUID completion that finds requests queued transmits    *)
(* exactly one of them, the one at the front, with the kind, UUID and hint *)
(* it was requested with.                                                  *)
(***************************************************************************)
C2_AsStated ==
    \A index \in Idx :
       LET q == before.controllers[index].pending_uuids
       IN  (IsUuidCompletion(last, index) /\ index <= before.max_index
                /\ q # <<>>)
           => /\ UuidCmdsFor(sent, index) = <<EntryCmd(Head(q), index)>>
              /\ controllers[index].pending_uuids = Tail(q)

(***************************************************************************)
(* C2 amended: a request for a 16-bit UUID made while a UUID operation is  *)
(* in flight is appended to the queue with its kind, UUID and hint; the    *)
(* queue otherwise only loses its front entry or is emptied; a UUID        *)
(* completion that finds the queue non-empty removes exactly the front     *)
(* entry and transmits exactly that entry when the write succeeds, and     *)
(* nothing when the write fails (the entry is then lost).                  *)
(***************************************************************************)
C2_Fifo ==
    \A index \in Idx :
       LET q == before.controllers[index].pending_uuids
           q2 == controllers[index].pending_uuids
           out == UuidCmdsFor(sent, index)
       IN  /\ (IsUuidRequest(last, index)
                   /\ before.controllers[index].pending_uuid
                   /\ Names16Bit(last.arg[1], last.arg[2], last.arg[3]))
               => q2 = Append(q, RequestEntry(last)) /\ out = <<>>
           /\ (IsUuidCompletion(last, index) /\ index <= before.max_index
                   /\ q # <<>>)
               => /\ q2 = Tail(q)
                  /\ out = IF last.wfail THEN <<>>
                           ELSE <<EntryCmd(Head(q), index)>>
           /\ \/ q2 = q
              \/ q2 = <<>>
              \/ q # <<>> /\ q2 = Tail(q)
              \/ Len(q2) = Len(q) + 1 /\ SubSeq(q2, 1, Len(q)) = q

\* a completion has sent the first of two queued requests
C2_Witness ==
    \E index \in Idx :
        /\ IsUuidCompletion(last, index)
        /\ sent = <<<<"MGMT_OP_ADD_UUID", index, <<4357, LoBase, 2>> >> >>
        /\ Len(controllers[index].pending_uuids) = 1
        /\ ~controllers[index].pending_uuids[1].add

(***************************************************************************)
(* C3 as stated: an add or remove request on a controller with no UUID     *)
(* operation in flight transmits the command at once and sets the          *)
(* in-flight flag; with one in flight it transmits nothing, appends one    *)
(* entry to the tail of the queue, leaves the flag set and returns 0.      *)
(***************************************************************************)
C3_AsStated ==
    \A index \in Idx :
       LET info == before.controllers[index]
           info2 == controllers[index]
       IN  IsUuidRequest(last, index)
           => IF ~info.pending_uuid
              THEN sent = <<RequestCmd(last)>> /\ info2.pending_uuid
              ELSE /\ sent = <<>>
                   /\ info2.pending_uuids
                          = Append(info.pending_uuids, RequestEntry(last))
                   /\ info2.pending_uuid
                   /\ ret = 0

(***************************************************************************)
(* C3 amended: the same for a request that names a 16-bit UUID (or the     *)
(* wildcard) and whose write succeeds.  When the write fails nothing is    *)
(* transmitted, the flag stays clear, nothing is queued and the result is  *)
(* negative.  A request for any other UUID is ignored: nothing is          *)
(* transmitted or queued, no state changes, and the result is 0.           *)
(***************************************************************************)
C3_Request ==
    \A index \in Idx :
       LET info == before.controllers[index]
           info2 == controllers[index]
       IN  IsUuidRequest(last, index)
           => IF ~Names16Bit(last.arg[1], last.arg[2], last.arg[3])
              THEN sent = <<>> /\ info2 = info /\ ret = 0
              ELSE IF info.pending_uuid
              THEN /\ sent = <<>>
                   /\ info2 = [info EXCEPT !.pending_uuids =
                                  Append(@, RequestEntry(last))]
                   /\ ret = 0
              ELSE IF last.wfail
              THEN sent = <<>> /\ info2 = info /\ ret < 0
              ELSE /\ sent = <<RequestCmd(last)>>
                   /\ info2 = [info EXCEPT !.pending_uuid = TRUE]
                   /\ ret = 0

\* a remove request has been queued behind an add request
C3_Witness ==
    \E index \in Idx :
        /\ last.op = "mgmt_remove_uuid" /\ last.index = index
        /\ sent = <<>> /\ ret = 0
        /\ controllers[index].pending_uuid
        /\ Len(controllers[index].pending_uuids) = 2
        /\ controllers[index].pending_uuids[1].add
        /\ controllers[index].pending_uuids[2] = RequestEntry(last)

(***************************************************************************)
(* Vocabulary of the deferred class change and power-on.                   *)
(***************************************************************************)
ClassCmd(index, major, minor) == <<"MGMT_OP_SET_DEV_CLASS", index, <<major, minor>> >>

PowerOnCmd(index) == <<"MGMT_OP_SET_POWERED", index, <<1>> >>

\* what a drain of an empty queue owes: the queued class change, then the
\* deferred power-on
Deferred(info, index) ==
    (IF info.pending_class
     THEN <<ClassCmd(index, info.major, info.minor)>> ELSE <<>>)
    \o (IF info.pending_powered THEN <<PowerOnCmd(index)>> ELSE <<>>)

\* seq with some elements left out
IsSubSeq(sub, seq) ==
    \E keep \in SUBSET (1..Len(seq)) :
        sub = SelectSeq(seq, LAMBDA x : \E k \in keep : seq[k] = x)

HasCmd(seq, opcode, index) ==
    \E k \in 1..Len(seq) : seq[k][1] = opcode /\ seq[k][2] = index

(***************************************************************************)
(* C4 as stated: a UUID completion for a registered controller clears the  *)
(* in-flight flag; if the queue is empty the queued class change is        *)
(* transmitted with the queued major and minor and its flag cleared, then  *)
(* the deferred power-on is transmitted and its flag cleared; neither is   *)
(* transmitted on a completion that finds the queue non-empty.             *)
(***************************************************************************)
C4_AsStated ==
    \A index \in Idx :
       LET info == before.controllers[index]
           info2 == controllers[index]
       IN  (IsUuidCompletion(last, index) /\ RegisteredBefore(index))
           => IF info.pending_uuids = <<>>
              THEN /\ ~info2.pending_uuid
                   /\ ~info2.pending_class /\ ~info2.pending_powered
                   /\ sent = Deferred(info, index)
              ELSE /\ ~HasCmd(sent, "MGMT_OP_SET_DEV_CLASS", index)
                   /\ ~HasCmd(sent, "MGMT_OP_SET_POWERED", index)

(***************************************************************************)
(* C4 amended: as stated, except that of the class change and the power-on *)
(* only those whose write succeeds are transmitted (both flags are cleared *)
(* either way); and on a completion that finds the queue non-empty the     *)
(* in-flight flag is set again exactly when the front entry was written.   *)
(***************************************************************************)
C4_Drain ==
    \A index \in Idx :
       LET info == before.controllers[index]
           info2 == controllers[index]
       IN  (IsUuidCompletion(last, index) /\ RegisteredBefore(index))
           => IF info.pending_uuids = <<>>
              THEN /\ ~info2.pending_uuid
                   /\ ~info2.pending_class /\ ~info2.pending_powered
                   /\ IF last.wfail
                      THEN /\ IsSubSeq(sent, Deferred(info, index))
                           /\ sent # Deferred(info, index)
                      ELSE sent = Deferred(info, index)
              ELSE /\ ~HasCmd(sent, "MGMT_OP_SET_DEV_CLASS", index)
                   /\ ~HasCmd(sent, "MGMT_OP_SET_POWERED", index)
                   /\ info2.pending_class = info.pending_class
                   /\ info2.pending_powered = info.pending_powered
                   /\ info2.pending_uuid
                          = (Len(UuidCmdsFor(sent, index)) = 1)

\* a completion has sent the queued class change and then the power-on
C4_Witness ==
    \E index \in Idx :
        /\ IsUuidCompletion(last, index)
        /\ sent = <<ClassCmd(index, 2, 8), PowerOnCmd(index)>>
        /\ ~controllers[index].pending_uuid
        /\ ~controllers[index].pending_class
        /\ ~controllers[index].pending_powered

(***************************************************************************)
(* C5 as stated: a power-on request made while a UUID operation is in      *)
(* flight transmits nothing, records the deferred power-on and returns 0;  *)
(* the deferred set-powered(on) is transmitted only by a later UUID        *)
(* completion that finds the queue empty.                                  *)
(***************************************************************************)
C5_AsStated ==
    \A index \in Idx :
       LET info == before.controllers[index]
       IN  /\ (last.op = "mgmt_set_powered" /\ last.index = index
                   /\ last.arg = <<1>> /\ info.pending_uuid)
               => /\ sent = <<>> /\ ret = 0
                  /\ controllers[index].pending_powered
           /\ (info.pending_powered /\ last.op # "mgmt_set_powered"
                   /\ PowerOnCmd(index) \in {sent[k] : k \in 1..Len(sent)})
               => /\ IsUuidCompletion(last, index)
                  /\ info.pending_uuids = <<>>

(***************************************************************************)
(* C5 amended: the deferred set-powered(on) is transmitted only by a later *)
(* UUID completion, or a class-of-device-changed event taken as the retry  *)
(* of a busy add, that finds the queue empty; the rest as stated.          *)
(***************************************************************************)
C5_Deferred ==
    \A index \in Idx :
       LET info == before.controllers[index]
       IN  /\ (last.op = "mgmt_set_powered" /\ last.index = index
                   /\ last.arg = <<1>> /\ info.pending_uuid)
               => /\ sent = <<>> /\ ret = 0
                  /\ controllers[index] =
                         [info EXCEPT !.pending_powered = TRUE]
           /\ (info.pending_powered /\ last.op # "mgmt_set_powered"
                   /\ PowerOnCmd(index) \in {sent[k] : k \in 1..Len(sent)})
               => /\ IsUuidCompletion(last, index)
                         \/ IsBusyRetry(last, index)
                  /\ info.pending_uuids = <<>>

\* a power-on has been deferred behind the UUID operation in flight
C5_Witness ==
    \E index \in Idx :
        /\ last.op = "mgmt_set_powered" /\ last.index = index
        /\ last.arg = <<1>>
        /\ sent = <<>> /\ ret = 0
        /\ controllers[index].pending_uuid
        /\ controllers[index].pending_powered

(***************************************************************************)
(* Vocabulary of the settings signals.                                     *)
(***************************************************************************)
\* a settings signal for index with a whole bitmask: the unsolicited event
\* or the completion of a set-mode command
IsSettingsSignal(l, index) ==
    /\ l.op \in SettingsOpcodes \cup {"MGMT_EV_NEW_SETTINGS"}
    /\ l.index = index
    /\ Len(l.arg) >= 4

\* the little-endian bitmask of the signal, and its bits
Bitmask(arg) == arg[1] + 256 * (arg[2] + 256 * (arg[3] + 256 * arg[4]))

PoweredBit(mask) == mask % 2 = 1
ConnectableBit(mask) == (mask \div 2) % 2 = 1
DiscoverableBit(mask) == (mask \div 8) % 2 = 1
PairableBit(mask) == (mask \div 16) % 2 = 1

\* an adapter object is registered under the address stored for index
AdapterFound(index) ==
    \E id \in Idx : before.adapters[id] # NoAdapter
                      /\ before.adapters[id] = before.controllers[index].bdaddr

CallsNamed(seq, name) == SelectSeq(seq, LAMBDA call : call[1] = name)

\* the settings notification that carries the bits of mask
SettingsNotification(seq, mask) ==
    /\ \E k \in 1..Len(seq) :
          /\ seq[k][1] = "adapter_update_connectable"
          /\ seq[k][3] = B2I(ConnectableBit(mask))
    /\ \E k \in 1..Len(seq) :
          /\ seq[k][1] = "adapter_update_discoverable"
          /\ seq[k][3] = B2I(DiscoverableBit(mask))
    /\ \E k \in 1..Len(seq) :
          /\ seq[k][1] = "adapter_update_pairable"
          /\ seq[k][3] = B2I(PairableBit(mask))

OneSettingsNotification(seq, mask) ==
    /\ SettingsNotification(seq, mask)
    /\ Len(CallsNamed(seq, "adapter_update_connectable")) = 1
    /\ Len(CallsNamed(seq, "adapter_update_discoverable")) = 1
    /\ Len(CallsNamed(seq, "adapter_update_pairable")) = 1

(***************************************************************************)
(* C6 as stated, for the case the code treats as power turning off: with a *)
(* class change queued and a power-on deferred behind a UUID operation in  *)
(* flight, a settings signal reporting powered=false for a powered         *)
(* controller whose adapter object is found leaves neither the queued      *)
(* class change nor the deferred power-on pending.                         *)
(***************************************************************************)
C6_AsStated ==
    \A index \in Idx :
       LET info == before.controllers[index]
           info2 == controllers[index]
       IN  (/\ IsSettingsSignal(last, index) /\ RegisteredBefore(index)
            /\ AdapterFound(index)
            /\ PoweredBit(info.current_settings)
            /\ ~PoweredBit(Bitmask(last.arg))
            /\ info.pending_uuid /\ info.pending_class
            /\ info.pending_powered)
           => ~info2.pending_class /\ ~info2.pending_powered

(***************************************************************************)
(* C7 as stated: every settings signal accepted for a controller, whether  *)
(* the powered bit turns on, turns off or does not change, pushes the      *)
(* connectable, discoverable and pairable bits of the new bitmask to the   *)
(* adapter object.                                                         *)
(***************************************************************************)
C7_AsStated ==
    \A index \in Idx :
       (IsSettingsSignal(last, index) /\ index <= before.max_index
            /\ AdapterFound(index))
       => SettingsNotification(calls, Bitmask(last.arg))

(***************************************************************************)
(* C7 amended: every accepted settings signal whose powered bit turns on   *)
(* or does not change pushes the three bits; one whose powered bit turns   *)
(* off makes the shutdown notification only.                               *)
(***************************************************************************)
C7_Push ==
    \A index \in Idx :
       LET mask == Bitmask(last.arg)
           cur == before.controllers[index].current_settings
       IN  (IsSettingsSignal(last, index) /\ index <= before.max_index
                /\ AdapterFound(index))
           => IF PoweredBit(cur) /\ ~PoweredBit(mask)
              THEN /\ Len(calls) = 1
                   /\ calls[1][1] = "btd_adapter_stop"
              ELSE SettingsNotification(calls, mask)

\* a signal that leaves the power as it is has pushed three differing bits
C7_Witness ==
    \E index \in Idx :
        /\ IsSettingsSignal(last, index)
        /\ Bitmask(last.arg) = 19
        /\ Len(calls) = 3
        /\ SettingsNotification(calls, 19)

(***************************************************************************)
(* C8 as stated: a settings signal with the powered bit set, for a         *)
(* controller whose stored settings have it clear, triggers exactly one    *)
(* startup notification, no shutdown notification and exactly one settings *)
(* notification with the new bits; a signal whose powered bit equals the   *)
(* stored one triggers neither startup nor shutdown.                       *)
(***************************************************************************)
C8_AsStated ==
    \A index \in Idx :
       LET mask == Bitmask(last.arg)
           cur == before.controllers[index].current_settings
       IN  (IsSettingsSignal(last, index) /\ RegisteredBefore(index))
           => /\ (PoweredBit(mask) /\ ~PoweredBit(cur))
                  => /\ Len(CallsNamed(calls, "btd_adapter_start")) = 1
                     /\ Len(CallsNamed(calls, "btd_adapter_stop")) = 0
                     /\ OneSettingsNotification(calls, mask)
              /\ (PoweredBit(mask) = PoweredBit(cur))
                  => /\ Len(CallsNamed(calls, "btd_adapter_start")) = 0
                     /\ Len(CallsNamed(calls, "btd_adapter_stop")) = 0

(***************************************************************************)
(* C8 amended: the same when an adapter object is found for the            *)
(* controller; when none is found the signal triggers no notification.     *)
(***************************************************************************)
C8_PowerOn ==
    \A index \in Idx :
       LET mask == Bitmask(last.arg)
           cur == before.controllers[index].current_settings
       IN  (IsSettingsSignal(last, index) /\ RegisteredBefore(index))
           => IF ~AdapterFound(index) THEN calls = <<>>
              ELSE /\ (PoweredBit(mask) /\ ~PoweredBit(cur))
                       => /\ Len(CallsNamed(calls, "btd_adapter_start")) = 1
                          /\ Len(CallsNamed(calls, "btd_adapter_stop")) = 0
                          /\ OneSettingsNotification(calls, mask)
                          /\ calls[1][1] = "btd_adapter_start"
                   /\ (PoweredBit(mask) = PoweredBit(cur))
                       => /\ Len(CallsNamed(calls, "btd_adapter_start")) = 0
                          /\ Len(CallsNamed(calls, "btd_adapter_stop")) = 0

\* bitmask 0x01 has powered the controller on: one startup, then the three
\* bits, all false
C8_Witness ==
    \E index \in Idx :
        /\ IsSettingsSignal(last, index)
        /\ Bitmask(last.arg) = 1
        /\ Len(calls) = 4
        /\ calls[1][1] = "btd_adapter_start"
        /\ OneSettingsNotification(calls, 0)

PublicOps ==
    {"mgmt_set_powered", "mgmt_set_connectable", "mgmt_set_discoverable",
     "mgmt_set_pairable", "mgmt_add_uuid", "mgmt_remove_uuid",
     "mgmt_set_dev_class", "mgmt_start_discovery", "mgmt_stop_discovery"}

C10_OnlyDecoded ==
    \A j \in Idx :
       LET old == before.controllers[j].current_settings
           new == controllers[j].current_settings
       IN  /\ (new # old /\ (j <= before.max_index \/ j = last.index))
               => /\ last.index = j
                  /\ \/ last.op = "MGMT_OP_READ_INFO" /\ new = last.arg[3]
                     \/ IsSettingsSignal(last, j)
                            /\ new = Bitmask(last.arg)
                     \/ last.op \in {"MGMT_EV_INDEX_ADDED",
                                      "MGMT_EV_INDEX_REMOVED"}
                            /\ new = 0
           /\ last.op \in PublicOps => new = old

\* a power-on command has gone out and the stored powered bit is still clear
C10_Witness ==
    \E index \in Idx :
        /\ last.op = "mgmt_set_powered" /\ last.index = index
        /\ sent = <<PowerOnCmd(index)>>
        /\ ret = 0
        /\ ~PoweredBit(controllers[index].current_settings)

(***************************************************************************)
(* Vocabulary of the busy retry.                                           *)
(***************************************************************************)
IsCmdStatus(l, index) == l.op = "MGMT_EV_CMD_STATUS" /\ l.index = index

IsBusyAdd(l, index) ==
    /\ IsCmdStatus(l, index)
    /\ l.arg[1] = "MGMT_OP_ADD_UUID" /\ l.arg[2] = 10

IsCodChanged(l, index) ==
    l.op = "MGMT_EV_CLASS_OF_DEV_CHANGED" /\ l.index = index

(***************************************************************************)
(* C11 as stated: a command status BUSY for ADD_UUID sets the busy flag    *)
(* and neither clears the in-flight flag nor sends anything; a             *)
(* class-of-device-changed event that finds the busy flag set clears it    *)
(* and drains: it transmits the front queued entry, or, the queue being    *)
(* empty, clears the in-flight flag and transmits the queued class change  *)
(* and the deferred power-on; one that finds the busy flag clear sends     *)
(* nothing and leaves the queue and the in-flight flag as they are.        *)
(***************************************************************************)
C11_AsStated ==
    \A index \in Idx :
       LET info == before.controllers[index]
           info2 == controllers[index]
           q == info.pending_uuids
       IN  RegisteredBefore(index)
           => /\ IsBusyAdd(last, index)
                  => /\ info2 = [info EXCEPT !.pending_cod_change = TRUE]
                     /\ sent = <<>>
              /\ (IsCodChanged(last, index) /\ info.pending_cod_change)
                  => /\ ~info2.pending_cod_change
                     /\ IF q # <<>>
                        THEN /\ sent = <<EntryCmd(Head(q), index)>>
                             /\ info2.pending_uuids = Tail(q)
                        ELSE /\ sent = Deferred(info, index)
                             /\ ~info2.pending_uuid
              /\ (IsCodChanged(last, index) /\ ~info.pending_cod_change)
                  => /\ sent = <<>>
                     /\ info2.pending_uuids = q
                     /\ info2.pending_uuid = info.pending_uuid

(***************************************************************************)
(* C11 amended: the same, except that the drain transmits the front entry, *)
(* the class change and the power-on only when their write succeeds; the   *)
(* front entry is removed, and the class and power-on flags are cleared,   *)
(* either way.                                                             *)
(***************************************************************************)
C11_BusyRetry ==
    \A index \in Idx :
       LET info == before.controllers[index]
           info2 == controllers[index]
           q == info.pending_uuids
       IN  RegisteredBefore(index)
           => /\ IsBusyAdd(last, index)
                  => /\ info2 = [info EXCEPT !.pending_cod_change = TRUE]
                     /\ sent = <<>>
              /\ (IsCodChanged(last, index) /\ info.pending_cod_change)
                  => /\ ~info2.pending_cod_change
                     /\ IF q # <<>>
                        THEN /\ sent = IF last.wfail THEN <<>>
                                       ELSE <<EntryCmd(Head(q), index)>>
                             /\ info2.pending_uuids = Tail(q)
                             /\ info2.pending_uuid = ~last.wfail
                        ELSE /\ IF last.wfail
                                THEN /\ IsSubSeq(sent, Deferred(info, index))
                                     /\ sent # Deferred(info, index)
                                ELSE sent = Deferred(info, index)
                             /\ ~info2.pending_uuid
                             /\ ~info2.pending_class
                             /\ ~info2.pending_powered
              /\ (IsCodChanged(last, index) /\ ~info.pending_cod_change)
                  => /\ sent = <<>>
                     /\ info2 = info

\* a class-of-device-changed event has taken the retry: the busy flag is
\* clear again and the front queued entry is on the wire
C11_Witness ==
    \E index \in Idx :
        /\ IsCodChanged(last, index)
        /\ Len(sent) = 1 /\ IsUuidCmd(sent[1])
        /\ unacked[index].c = 2
        /\ ~controllers[index].pending_cod_change
        /\ controllers[index].pending_uuid

(***************************************************************************)
(* C12: the busy flag of a controller is set only by a command status for  *)
(* ADD_UUID whose status is BUSY; every other command status (BUSY for     *)
(* another opcode, another failure of ADD_UUID, status zero) leaves every  *)
(* controller record as it is and sends nothing.                           *)
(***************************************************************************)
C12_OnlyBusyAdd ==
    \A index \in Idx :
       /\ (IsCmdStatus(last, index) /\ ~IsBusyAdd(last, index))
              => controllers = before.controllers /\ sent = <<>>
       /\ (index <= before.max_index
               /\ ~before.controllers[index].pending_cod_change
               /\ controllers[index].pending_cod_change)
              => IsBusyAdd(last, index)

\* a BUSY status for REMOVE_UUID has left a controller with a UUID command
\* in flight and its busy flag clear
C12_Witness ==
    \E index \in Idx :
        /\ IsCmdStatus(last, index)
        /\ last.arg = <<"MGMT_OP_REMOVE_UUID", 10>>
        /\ Registered(index)
        /\ controllers[index].pending_uuid
        /\ ~controllers[index].pending_cod_change

(***************************************************************************)
(* C13 as stated: an inbound event, command complete or command status for *)
(* an index that is not registered (above max_index, or a slot that is not *)
(* valid) makes no collaborator call, transmits nothing, modifies no       *)
(* controller record and does not crash.                                   *)
(***************************************************************************)
InboundOps ==
    {"MGMT_EV_INDEX_REMOVED", "MGMT_OP_READ_INFO", "MGMT_EV_NEW_SETTINGS",
     "MGMT_EV_CMD_STATUS", "MGMT_EV_CLASS_OF_DEV_CHANGED"}
        \cup SettingsOpcodes \cup UuidCompletionOps

C13_AsStated ==
    \A index \in Idx :
       (last.op \in InboundOps /\ last.index = index
            /\ ~RegisteredBefore(index))
       => /\ calls = <<>>
          /\ sent = <<>>
          /\ controllers = before.controllers
          /\ pc = "running"

(***************************************************************************)
(* Vocabulary of the controller table.                                     *)
(***************************************************************************)
IsIndexAdded(l, index) == l.op = "MGMT_EV_INDEX_ADDED" /\ l.index = index

IsIndexRemoved(l, index) == l.op = "MGMT_EV_INDEX_REMOVED" /\ l.index = index

FreshInfo == [ZeroInfo EXCEPT !.valid = TRUE]

(***************************************************************************)
(* C14 as stated: from the empty table (max_index = -1) the registration   *)
(* of index i leaves slot i valid and zeroed and every slot j < i zeroed   *)
(* and not valid, so that j is an unknown controller.                      *)
(***************************************************************************)
C14_AsStated ==
    \A i \in DOMAIN before.controllers :
       (IsIndexAdded(last, i) /\ before.max_index = -1)
       => /\ max_index = i
          /\ controllers[i] = FreshInfo
          /\ \A j \in 0..(i - 1) : controllers[j] = ZeroInfo

(***************************************************************************)
(* C15: the registration of index i leaves slot i valid with every pending *)
(* state cleared and settings 0, whatever the slot held before, and leaves *)
(* the record of every other index of the table as it was, in whatever     *)
(* order the indices arrive.                                               *)
(***************************************************************************)
C15_FreshSlot ==
    \A i \in DOMAIN before.controllers :
       IsIndexAdded(last, i)
       => /\ controllers[i] = FreshInfo
          /\ max_index = IF i > before.max_index THEN i ELSE before.max_index
          /\ \A j \in DOMAIN before.controllers :
                 (j # i /\ j <= before.max_index)
                 => controllers[j] = before.controllers[j]

\* index 0 has been registered after index 2, which has a UUID command in
\* flight and a power-on deferred
C15_Witness ==
    /\ IsIndexAdded(last, 0)
    /\ max_index = 2
    /\ controllers[0] = FreshInfo
    /\ controllers[2].valid /\ controllers[2].pending_uuid
    /\ controllers[2].pending_powered
    /\ unacked[2].c = 1

(***************************************************************************)
(* C16: a controller-removed event for an index that is out of range or    *)
(* whose slot is not valid changes no state and makes no collaborator      *)
(* call; for a valid slot it tells the adapter manager of the removal      *)
(* exactly once, drops the queued UUID requests and leaves the slot zeroed *)
(* and not valid (so that a second removal falls in the first case).       *)
(***************************************************************************)
C16_Removal ==
    \A index \in DOMAIN before.controllers :
       IsIndexRemoved(last, index)
       => /\ sent = <<>>
          /\ max_index = before.max_index
          /\ IF RegisteredBefore(index)
             THEN /\ calls = <<<<"btd_manager_unregister_adapter",
                                  index, 0>>>>
                  /\ controllers =
                         [before.controllers EXCEPT ![index] = ZeroInfo]
                  /\ ~controllers[index].valid
                  /\ controllers[index].pending_uuids = <<>>
             ELSE /\ calls = <<>>
                  /\ controllers = before.controllers
                  /\ adapters = before.adapters

\* a controller with requests queued has been removed while a higher index
\* stays registered
C16_Witness ==
    \E index \in DOMAIN controllers :
        /\ IsIndexRemoved(last, index)
        /\ Len(calls) = 1
        /\ controllers[index] = ZeroInfo
        /\ unacked[index].c = 0
        /\ index < max_index
        /\ controllers[max_index].valid
        /\ controllers[max_index].pending_uuids # <<>>

(***************************************************************************)
(* Vocabulary of the reader.                                               *)
(***************************************************************************)
IsRead(l) == l.op = "mgmt_event" /\ l.arg[2] = "G_IO_IN"

MsgOf(l) == Messages[l.arg[1]]
NreadOf(l) == l.arg[3]
LenOf(l) == l.arg[4]

\* read() gave a whole header and as many bytes as the header declares
WellFramed(l) == NreadOf(l) >= 6 /\ NreadOf(l) = 6 + LenOf(l)

\* the message of opcode reached its handler
Dispatched(l, opcode) ==
    IsRead(l) /\ WellFramed(l) /\ MsgOf(l).opcode = opcode

\* the step left the table and the adapters alone, sent and called nothing
Quiet ==
    /\ controllers = before.controllers
    /\ max_index = before.max_index
    /\ adapters = before.adapters
    /\ sent = <<>>
    /\ calls = <<>>

(***************************************************************************)
(* C17: what read() delivers is dispatched to a handler only if it is at   *)
(* least 6 bytes and exactly 6 plus the payload length the header          *)
(* declares; otherwise no state changes, nothing is called or transmitted, *)
(* and the reader keeps listening.                                         *)
(***************************************************************************)
C17_Framing ==
    (IsRead(last) /\ ~WellFramed(last))
    => Quiet /\ ret = 1 /\ pc = "running"

\* a controller-removed message whose header declares one byte more than
\* came has left the controller registered
C17_Witness ==
    /\ IsRead(last)
    /\ MsgOf(last).opcode = "MGMT_EV_INDEX_REMOVED"
    /\ NreadOf(last) = 6 /\ LenOf(last) = 1
    /\ Registered(last.index)
    /\ controllers[last.index].pending_uuid
    /\ pc = "running"

(***************************************************************************)
(* C18: a device-found event is reported to the adapter only when its      *)
(* payload length is exactly the fixed prefix plus the eir_len declared in *)
(* it; a shorter or longer payload makes no call and changes no state.     *)
(***************************************************************************)
C18_DeviceFound ==
    Dispatched(last, "MGMT_EV_DEVICE_FOUND")
    => IF LenOf(last) = 14 + MsgOf(last).body.eir_len
          /\ last.index <= before.max_index /\ AdapterFound(last.index)
       THEN /\ \E id \in Idx :
                  /\ before.adapters[id] # NoAdapter
                  /\ before.adapters[id] = before.controllers[last.index].bdaddr
                  /\ calls = <<<<"adapter_update_found_devices", id,
                                  MsgOf(last).body.eir_len>>>>
            /\ controllers = before.controllers /\ sent = <<>>
       ELSE Quiet

\* a device-found event with eir_len 5 and 5 bytes after the prefix has
\* been reported
C18_Witness ==
    /\ IsRead(last)
    /\ MsgOf(last).opcode = "MGMT_EV_DEVICE_FOUND"
    /\ LenOf(last) = 19
    /\ calls = <<<<"adapter_update_found_devices", last.index, 5>>>>

IsComplete(l, opcode) ==
    /\ Dispatched(l, "MGMT_EV_CMD_COMPLETE")
    /\ MsgOf(l).body.opcode = opcode
    /\ LenOf(l) >= SizeofCmdComplete

\* the bytes of the reply after the command-complete prefix
ReplyLen(l) == LenOf(l) - SizeofCmdComplete

OldVersion(l) ==
    /\ IsComplete(l, "MGMT_OP_READ_VERSION")
    /\ ReplyLen(l) >= SizeofReadVersion
    /\ MsgOf(l).body.data.version < 1

ShortVersion(l) ==
    IsComplete(l, "MGMT_OP_READ_VERSION") /\ ReplyLen(l) < SizeofReadVersion

GoodVersion(l) ==
    /\ IsComplete(l, "MGMT_OP_READ_VERSION")
    /\ ReplyLen(l) >= SizeofReadVersion
    /\ MsgOf(l).body.data.version >= 1

\* a busy status for ADD_UUID on an index beyond the table: the store of
\* mgmt_add_uuid_busy is out of bounds
BusyBeyond(l) ==
    /\ Dispatched(l, "MGMT_EV_CMD_STATUS")
    /\ LenOf(l) >= SizeofCmdStatus
    /\ MsgOf(l).body.opcode = "MGMT_OP_ADD_UUID"
    /\ MsgOf(l).body.status = MGMT_STATUS_BUSY
    /\ l.index > before.max_index

(***************************************************************************)
(* Undersized payloads.                                                    *)
(***************************************************************************)
UuidOpcodes == {"MGMT_OP_ADD_UUID", "MGMT_OP_REMOVE_UUID"}

\* the fixed prefix the reply to a command requires after the event's own
ReplyPrefix(opcode) ==
    CASE opcode = "MGMT_OP_READ_VERSION" -> SizeofReadVersion
      [] opcode = "MGMT_OP_READ_INDEX_LIST" -> SizeofReadIndexList
      [] opcode = "MGMT_OP_READ_INFO" -> SizeofReadInfo
      [] opcode \in SettingsOpcodes -> SizeofSettings
      [] opcode \in UuidOpcodes -> SizeofCod
      [] OTHER -> 0

\* the fixed prefix a message of this kind requires
Prefix(msg) ==
    CASE msg.opcode = "MGMT_EV_CMD_COMPLETE" ->
             SizeofCmdComplete + ReplyPrefix(msg.body.opcode)
      [] msg.opcode = "MGMT_EV_CMD_STATUS" -> SizeofCmdStatus
      [] msg.opcode = "MGMT_EV_NEW_SETTINGS" -> SizeofSettings
      [] msg.opcode = "MGMT_EV_CLASS_OF_DEV_CHANGED" -> SizeofCod
      [] msg.opcode = "MGMT_EV_DEVICE_FOUND" -> SizeofDeviceFound
      [] msg.opcode = "MGMT_EV_DEVICE_CONNECTED" -> SizeofDeviceConnected
      [] OTHER -> 0

\* a message reached its handler with less than the prefix of its kind
Undersized(l) ==
    IsRead(l) /\ WellFramed(l) /\ LenOf(l) < Prefix(MsgOf(l))

\* an add or remove completion that holds the whole command-complete event
\* but less than the class of device after it
ShortUuidCompletion(l) ==
    /\ Undersized(l)
    /\ MsgOf(l).opcode = "MGMT_EV_CMD_COMPLETE"
    /\ MsgOf(l).body.opcode \in UuidOpcodes
    /\ LenOf(l) >= SizeofCmdComplete

ShortCodChanged(l) ==
    Undersized(l) /\ MsgOf(l).opcode = "MGMT_EV_CLASS_OF_DEV_CHANGED"

ReadInfoCmds(seq) == SelectSeq(seq, LAMBDA cmd : cmd[1] = "MGMT_OP_READ_INFO")

\* the indices the step reports: those of a well-formed index list, or
\* that of a controller-added event
ReportedBy(l) ==
    IF l.op = "MGMT_EV_INDEX_ADDED" THEN <<l.index>>
    ELSE IF l.op = "MGMT_OP_READ_INDEX_LIST"
             /\ l.arg[2] = 2 + 2 * Len(l.arg[1])
         THEN l.arg[1]
    ELSE <<>>

ReadInfoFor(list) ==
    [k \in 1..Len(list) |-> Cmd("MGMT_OP_READ_INFO", list[k], <<>>)]

InSeq(x, seq) == \E k \in 1..Len(seq) : seq[k] = x

(***************************************************************************)
(* C22: setup transmits READ_VERSION first; READ_INDEX_LIST is transmitted *)
(* only on a read-version completion that reports version 1 or more; a     *)
(* controller is registered and its READ_INFO transmitted only for the     *)
(* indices of an index-list completion whose length is exactly 2 + 2 *     *)
(* count (otherwise none) or of a controller-added event, and a READ_INFO  *)
(* is only ever transmitted for an index that has been registered.         *)
(***************************************************************************)
C22_Startup ==
    IF last.op = "mgmt_setup"
    THEN sent = <<Cmd("MGMT_OP_READ_VERSION", MGMT_INDEX_NONE, <<>>)>>
    ELSE LET reported == ReportedBy(last)
         IN  /\ ~HasCmd(sent, "MGMT_OP_READ_VERSION", MGMT_INDEX_NONE)
             /\ HasCmd(sent, "MGMT_OP_READ_INDEX_LIST", MGMT_INDEX_NONE)
                 => /\ last.op = "MGMT_OP_READ_VERSION"
                    /\ last.arg[1] >= 1
                    /\ last.arg[2] >= 3
             /\ IF last.wfail
                THEN IsSubSeq(ReadInfoCmds(sent), ReadInfoFor(reported))
                ELSE ReadInfoCmds(sent) = ReadInfoFor(reported)
             /\ \A index \in RegIdx :
                   /\ InSeq(index, reported)
                       => /\ controllers[index] = FreshInfo
                          /\ index <= max_index
                   /\ (~InSeq(index, reported) /\ index <= before.max_index
                          /\ last.op # "MGMT_EV_INDEX_REMOVED")
                       => controllers[index] = before.controllers[index]
             /\ reported = <<>> => max_index = before.max_index

\* an index list of two has registered both and asked for the information
\* of both, in the order of the list
C22_Witness ==
    /\ last.op = "MGMT_OP_READ_INDEX_LIST"
    /\ last.arg[1] = <<2, 0>>
    /\ sent = ReadInfoFor(<<2, 0>>)
    /\ controllers[2].valid /\ controllers[0].valid
    /\ max_index = 2

(***************************************************************************)
(* Failed writes of the public operations.                                 *)
(***************************************************************************)
\* the public operations that transmit a command
CommandOps ==
    {"mgmt_add_uuid", "mgmt_remove_uuid", "mgmt_set_powered",
     "mgmt_set_dev_class", "mgmt_set_connectable", "mgmt_set_discoverable",
     "mgmt_set_pairable", "mgmt_start_discovery", "mgmt_start_le_scanning",
     "mgmt_stop_discovery", "mgmt_disconnect", "mgmt_pincode_reply",
     "mgmt_confirm_reply", "mgmt_passkey_reply", "mgmt_set_fast_connectable",
     "mgmt_block_device", "mgmt_unblock_device", "mgmt_unpair_device",
     "mgmt_set_did", "mgmt_load_link_keys", "mgmt_set_io_capability",
     "mgmt_create_bonding", "mgmt_cancel_bonding", "mgmt_read_local_oob_data",
     "mgmt_add_remote_oob_data", "mgmt_remove_remote_oob_data",
     "mgmt_confirm_name", "mgmt_load_ltks", "mgmt_set_name"}

\* the operation of the step is a public one whose write failed
FailedWrite(l) == l.op \in CommandOps /\ l.wfail

\* what the controller holds back for later: the in-flight flag, the queue,
\* and the deferred class, power-on and class-event marks
PendingState(info) ==
    <<info.pending_uuid, info.pending_uuids, info.pending_class,
      info.pending_powered, info.pending_cod_change>>

\* C23, as stated: a public operation whose write fails returns a negative
\* result, transmits nothing more, and leaves the pending state of its
\* controller as it was; disconnect included.  mgmt_disconnect() logs the
\* failure and returns 0.
C23_AsStated ==
    FailedWrite(last) =>
       /\ ret < 0
       /\ sent = <<>>
       /\ PendingState(controllers[last.index])
              = PendingState(before.controllers[last.index])

\* C23: every public operation but disconnect returns a negative result
\* when its write fails and transmits nothing
C23_Others ==
    (FailedWrite(last) /\ last.op # "mgmt_disconnect") =>
       /\ ret < 0
       /\ sent = <<>>

\* a disconnect whose write failed has returned 0
C23_Witness ==
    /\ last.op = "mgmt_disconnect"
    /\ last.wfail
    /\ ret = 0
    /\ sent = <<>>

(***************************************************************************)
(* Discovery.                                                              *)
(***************************************************************************)
IsLeScan(l) == l.op = "mgmt_start_le_scanning"

\* C24: an LE scan requested of a controller whose current settings lack
\* the LE bit returns -ENOTSUP at once, transmits nothing, and leaves the
\* stored discovery type (and the rest of the controller) as it was
C24_LeScanUnsupported ==
    (/\ IsLeScan(last)
     /\ ~mgmt_low_energy(before.controllers[last.index].current_settings)) =>
       /\ ret = -ENOTSUP
       /\ sent = <<>>
       /\ controllers[last.index].discov_type
              = before.controllers[last.index].discov_type
       /\ controllers = before.controllers

\* a refused LE scan on a controller that still holds the type of an
\* earlier discovery
C24_Witness ==
    /\ IsLeScan(last)
    /\ ~mgmt_low_energy(controllers[last.index].current_settings)
    /\ ret = -ENOTSUP
    /\ sent = <<>>
    /\ controllers[last.index].discov_type = DiscovBredr + DiscovLe

IsStartDiscovery(l) == l.op = "mgmt_start_discovery"
IsStopDiscovery(l) == l.op = "mgmt_stop_discovery"

\* the address types of the radios in a settings bitmask
Selection(settings) ==
    (IF mgmt_bredr(settings) THEN DiscovBredr ELSE 0)
      + (IF mgmt_low_energy(settings) THEN DiscovLe ELSE 0)

\* the stored type changes only at a start request, or when the slot is
\* registered anew; a stop request transmits the stored type
EchoedByStop ==
    /\ (/\ ~IsStartDiscovery(last) /\ ~IsLeScan(last)
        /\ last.op # "MGMT_EV_INDEX_ADDED") =>
          \A j \in DOMAIN before.controllers :
              controllers[j].discov_type = before.controllers[j].discov_type
    /\ IsStopDiscovery(last) =>
          /\ sent = IF last.wfail THEN <<>>
                    ELSE <<Cmd("MGMT_OP_STOP_DISCOVERY", last.index,
                               <<before.controllers[last.index].discov_type>>)>>
          /\ controllers = before.controllers

\* whether the LE scan of the step was accepted
AcceptedLeScan ==
    /\ IsLeScan(last)
    /\ mgmt_low_energy(before.controllers[last.index].current_settings)

\* C25, as stated: a start request, for discovery or for an LE scan, stores
\* the types of the radios in the current settings (a refused LE scan stores
\* nothing), and the stop request echoes what is stored.  An accepted LE
\* scan stores the LE types only, also when the classic radio is on.
C25_AsStated ==
    /\ (IsStartDiscovery(last) \/ AcceptedLeScan) =>
          controllers[last.index].discov_type
             = Selection(before.controllers[last.index].current_settings)
    /\ (IsLeScan(last) /\ ~AcceptedLeScan) =>
          controllers[last.index].discov_type
             = before.controllers[last.index].discov_type
    /\ EchoedByStop

\* C25: a start-discovery request stores the types of the radios in the
\* current settings, an accepted LE scan stores the two LE types, a refused
\* one stores nothing, nothing else but a new registration changes the
\* stored type, and a stop request transmits it, whatever the settings are
\* by then
C25_Echo ==
    /\ IsStartDiscovery(last) =>
          controllers[last.index].discov_type
             = Selection(before.controllers[last.index].current_settings)
    /\ IsLeScan(last) =>
          controllers[last.index].discov_type
             = IF AcceptedLeScan THEN DiscovLe
               ELSE before.controllers[last.index].discov_type
    /\ EchoedByStop

\* a stop request that carried the LE types of an LE scan while the current
\* settings have the classic radio only
C25_Witness ==
    /\ IsStopDiscovery(last)
    /\ sent = <<Cmd("MGMT_OP_STOP_DISCOVERY", last.index, <<DiscovLe>>)>>
    /\ Selection(controllers[last.index].current_settings) = DiscovBredr

(***************************************************************************)
(* The address and the supported settings of a controller.                 *)
(***************************************************************************)
IsReadInfo(l, index) == l.op = "MGMT_OP_READ_INFO" /\ l.index = index

\* the read-info completion of the step is one read_info_complete() takes
TakenReadInfo(l) ==
    /\ l.op = "MGMT_OP_READ_INFO"
    /\ l.arg[4] >= SizeofCmdComplete + SizeofReadInfo
    /\ l.index <= max_index

\* TakenReadInfo, in the state the step found
TakenReadInfoBefore(l) ==
    /\ l.op = "MGMT_OP_READ_INFO"
    /\ l.arg[4] >= SizeofCmdComplete + SizeofReadInfo
    /\ l.index <= before.max_index

\* slot j has had its address set by a read-info completion
InfoRead(j) == before.controllers[j].valid /\ before.controllers[j].bdaddr # 0

Identity(info) == <<info.bdaddr, info.supported_settings>>

\* C26, as stated: once a read-info completion has set the address and the
\* supported settings of a registered controller, no message changes them
\* until the index is removed or added again.  read_info_complete() stores
\* both anew on every completion.
C26_AsStated ==
    \A j \in DOMAIN before.controllers :
       (/\ InfoRead(j)
        /\ ~IsIndexAdded(last, j)
        /\ ~IsIndexRemoved(last, j)) =>
           Identity(controllers[j]) = Identity(before.controllers[j])

\* C26: no message but a read-info completion for the index, its removal
\* or its registration changes the two
C26_OnlyReadInfo ==
    \A j \in DOMAIN before.controllers :
       (/\ InfoRead(j)
        /\ ~IsIndexAdded(last, j)
        /\ ~IsIndexRemoved(last, j)
        /\ ~IsReadInfo(last, j)) =>
           Identity(controllers[j]) = Identity(before.controllers[j])

\* a second read-info completion has replaced the address and the supported
\* settings of a controller that has its adapter
C26_Witness ==
    /\ TakenReadInfo(last)
    /\ adapters[last.index] # NoAdapter
    /\ adapters[last.index] # controllers[last.index].bdaddr
    /\ Identity(controllers[last.index]) = <<last.arg[1], last.arg[2]>>

(***************************************************************************)
(* A UUID command whose completion does not arrive.                        *)
(***************************************************************************)
\* the step delivered a settings bitmask for index with the power bit off
IsPowerOffSignal(l, index) ==
    IsSettingsSignal(l, index) /\ ~PoweredBit(Bitmask(l.arg))

\* index has a UUID command in flight, and the step is neither its
\* completion nor the removal or registration of index
StillWaiting(index) ==
    /\ RegisteredBefore(index)
    /\ before.controllers[index].pending_uuid
    /\ ~IsUuidCompletion(last, index)
    /\ ~IsIndexAdded(last, index)
    /\ ~IsIndexRemoved(last, index)

Stuck(index) ==
    /\ controllers[index].pending_uuid
    /\ UuidCmdsFor(sent, index) = <<>>

BringUpModes == {"MGMT_OP_SET_PAIRABLE", "MGMT_OP_SET_SSP", "MGMT_OP_SET_LE"}

ModeCmds(seq) == SelectSeq(seq, LAMBDA cmd : cmd[1] \in BringUpModes)

ModeOn(opcode, index) == Cmd(opcode, index, <<1>>)

\* set-mode(on) for opcode if wanted, in a sequence
OnIf(wanted, opcode, index) ==
    IF wanted THEN <<ModeOn(opcode, index)>> ELSE <<>>

\* the read-info completion of the step has registered the adapter
BroughtUp ==
    /\ TakenReadInfoBefore(last)
    /\ before.adapters[last.index] = NoAdapter
    /\ adapters[last.index] # NoAdapter

\* a flag is to be switched on when it is supported and not on
Missing(bit, sup, cur) == HasBit(sup, bit) /\ ~HasBit(cur, bit)

\* C28, as stated: at bring-up set-mode(on) is transmitted for each of
\* pairable, SSP and LE exactly when the flag is supported and not on.
\* read_info_complete() asks for pairable without a look at the supported
\* settings.
C28_AsStated ==
    (BroughtUp /\ ~last.wfail) =>
       LET sup == last.arg[2]
           cur == last.arg[3]
           index == last.index
       IN  ModeCmds(sent)
             = OnIf(Missing(MGMT_SETTING_PAIRABLE, sup, cur),
                    "MGMT_OP_SET_PAIRABLE", index)
               \o OnIf(Missing(MGMT_SETTING_SSP, sup, cur),
                       "MGMT_OP_SET_SSP", index)
               \o OnIf(Missing(MGMT_SETTING_LE, sup, cur),
                       "MGMT_OP_SET_LE", index)

\* what read_info_complete() writes: pairable when it is not on, SSP and LE
\* when supported and not on
ModesWritten(sup, cur, index) ==
    OnIf(~HasBit(cur, MGMT_SETTING_PAIRABLE), "MGMT_OP_SET_PAIRABLE", index)
      \o OnIf(Missing(MGMT_SETTING_SSP, sup, cur), "MGMT_OP_SET_SSP", index)
      \o OnIf(Missing(MGMT_SETTING_LE, sup, cur), "MGMT_OP_SET_LE", index)

\* C28: a read-info completion that registers the adapter writes
\* set-mode(on) for SSP and for LE exactly when the flag is supported and
\* not on, and for pairable exactly when it is not on; those whose write
\* succeeds are transmitted, in that order.  A read-info completion that
\* registers no adapter transmits none of them.
C28_BringUp ==
    last.op = "MGMT_OP_READ_INFO" =>
       LET written == ModesWritten(last.arg[2], last.arg[3], last.index)
       IN  IF BroughtUp
           THEN IF last.wfail
                THEN IsSubSeq(ModeCmds(sent), written)
                ELSE ModeCmds(sent) = written
           ELSE ModeCmds(sent) = <<>>

\* a bring-up with pairable on already: SSP and LE were asked for, pairable
\* was not
C28_Witness ==
    /\ last.op = "MGMT_OP_READ_INFO"
    /\ ~last.wfail
    /\ last.arg[3] = MGMT_SETTING_PAIRABLE
    /\ ModeCmds(sent) = <<ModeOn("MGMT_OP_SET_SSP", last.index),
                          ModeOn("MGMT_OP_SET_LE", last.index)>>

(***************************************************************************)
(* A failed read of the local OOB data.                                    *)
(***************************************************************************)
OobUnavailable(id) == <<"adapter_read_local_oob_data_complete", id, 0>>

OobCalls(seq) == CallsNamed(seq, "adapter_read_local_oob_data_complete")

\* the step delivered a command status for READ_LOCAL_OOB_DATA with a
\* status that is not zero
IsOobFailure(l) ==
    /\ l.op = "MGMT_EV_CMD_STATUS"
    /\ l.arg[1] = "MGMT_OP_READ_LOCAL_OOB_DATA"
    /\ l.arg[2] # 0

\* C29, as stated: a failed status for READ_LOCAL_OOB_DATA on a registered
\* controller delivers one OOB completion with NULL hash and randomizer to
\* the adapter; every other command status delivers none.  A registered
\* controller that has no adapter object gets none.
C29_AsStated ==
    last.op = "MGMT_EV_CMD_STATUS" =>
       IF IsOobFailure(last) /\ RegisteredBefore(last.index)
       THEN OobCalls(calls) = <<OobUnavailable(last.index)>>
       ELSE OobCalls(calls) = <<>>

\* C29: a failed status for READ_LOCAL_OOB_DATA on an index of the table
\* whose adapter object exists delivers one OOB completion with NULL hash
\* and randomizer to that adapter and nothing else; without an adapter
\* object, with a zero status, or for another opcode no OOB completion is
\* delivered; no command status transmits anything
C29_OobUnavailable ==
    last.op = "MGMT_EV_CMD_STATUS" =>
       /\ sent = <<>>
       /\ IF /\ IsOobFailure(last)
             /\ last.index <= before.max_index
             /\ before.adapters[last.index] # NoAdapter
          THEN /\ calls = <<OobUnavailable(last.index)>>
               /\ controllers = before.controllers
          ELSE OobCalls(calls) = <<>>

\* the adapter of a controller was told that no OOB data is to be had
C29_Witness ==
    /\ IsOobFailure(last)
    /\ Registered(last.index)
    /\ adapters[last.index] # NoAdapter
    /\ calls = <<OobUnavailable(last.index)>>

(***************************************************************************)
(* The header of an outbound command, read back.                           *)
(***************************************************************************)
WireOps ==
    {"header", "mgmt_set_mode", "fixed", "mgmt_load_link_keys",
     "mgmt_load_ltks"}

\* the header of buf decodes to opcode and index, and its length field to
\* the number of bytes written after the header
ReadsBack(buf, opcode, index) ==
    /\ Len(buf.hdr) = MGMT_HDR_SIZE
    /\ bt_get_le16(SubSeq(buf.hdr, 1, 2)) = opcode
    /\ bt_get_le16(SubSeq(buf.hdr, 3, 4)) = index
    /\ buf.written = MGMT_HDR_SIZE + bt_get_le16(SubSeq(buf.hdr, 5, 6))

\* C30, as stated: the header of every command written decodes to the
\* opcode, the index asked for, and the number of bytes that follow it.
\* The length of a key list is cut to 16 bits.
C30_AsStated ==
    last.op \in WireOps =>
       \A k \in 1..Len(sent) :
           ReadsBack(sent[k], last.arg[1], last.index)

\* the parameters of the step need more than 16 bits for their length
LongKeyList(l) ==
    \/ /\ l.op = "mgmt_load_link_keys"
       /\ SizeofLoadLinkKeys + l.arg[2] * SizeofLinkKeyInfo > 65535
    \/ /\ l.op = "mgmt_load_ltks"
       /\ SizeofLoadLtks + l.arg[2] * SizeofLtkInfo > 65535

\* C30: the header reads back for every command whose parameters are
\* shorter than 65536 bytes, and for no longer one
C30_ShortOfOverflow ==
    last.op \in WireOps =>
       \A k \in 1..Len(sent) :
           ReadsBack(sent[k], last.arg[1], last.index)
              <=> ~LongKeyList(last)

\* 2622 link keys were written behind a header that announces 17 bytes
C30_Witness ==
    /\ last.op = "mgmt_load_link_keys"
    /\ last.arg[2] = 2622
    /\ Len(sent) = 1
    /\ bt_get_le16(SubSeq(sent[1].hdr, 5, 6)) = 17
    /\ sent[1].written = MGMT_HDR_SIZE + 65553

(***************************************************************************)
(* The list of connections of a controller.                                *)
(***************************************************************************)
\* the step delivered to get_connections_complete() a whole reply for index
\* that it takes
TakenSnapshot(l, index) ==
    /\ l.op = "MGMT_OP_GET_CONNECTIONS" /\ l.index = index
    /\ l.arg[2] = SizeofGetConnections + Len(l.arg[1]) * SizeofAddrInfo
    /\ index <= before.max_index

Occurrences(seq, x) == Cardinality({k \in 1..Len(seq) : seq[k] = x})

\* C31, as stated: after a connections snapshot for a controller, each peer
\* of the snapshot is once in the controller's list of connections: a
\* second snapshot does not duplicate entries.  get_connections_complete()
\* appends every entry of every reply to the list.
C31_AsStated ==
    \A index \in DOMAIN before.controllers :
       TakenSnapshot(last, index) =>
           \A k \in 1..Len(last.arg[1]) :
               Occurrences(controllers[index].connections,
                           last.arg[1][k]) = 1

\* C31: a snapshot is appended to the list, the adapter taking the list
\* empties it, and the events of devices connecting and disconnecting leave
\* it as it is (they go to the adapter object)
C31_Appended ==
    \A index \in DOMAIN before.controllers :
       /\ TakenSnapshot(last, index) =>
              controllers[index].connections
                  = before.controllers[index].connections \o last.arg[1]
       /\ last.op \in {"MGMT_EV_DEVICE_CONNECTED",
                        "MGMT_EV_DEVICE_DISCONNECTED"} =>
              controllers[index].connections
                  = before.controllers[index].connections
       /\ (last.op = "mgmt_get_conn_list" /\ last.index = index
              /\ index <= before.max_index) =>
              /\ controllers[index].connections = <<>>
              /\ calls = <<<<"*conns", index,
                              before.controllers[index].connections>>>>

\* a second snapshot has put a peer twice in the list
C31_Witness ==
    /\ last.op = "MGMT_OP_GET_CONNECTIONS"
    /\ \E k \in 1..Len(last.arg[1]) :
          Occurrences(controllers[last.index].connections, last.arg[1][k]) = 2

(***************************************************************************)
(* The completion of SET_DEV_CLASS.                                        *)
(***************************************************************************)
\* the step delivered to mgmt_update_cod() a SET_DEV_CLASS completion for
\* index with a class of three bytes in its body
IsClassCompletion(l, index) ==
    /\ l.op = "MGMT_OP_SET_DEV_CLASS" /\ l.index = index
    /\ Len(l.arg[1]) >= SizeofCod

\* C32, as stated: the completion of SET_DEV_CLASS for a registered
\* controller that has its adapter reports to the adapter the three bytes of
\* the result body, and the completion for an index beyond the table is
\* dropped.  mgmt_update_cod() is handed the event itself, so it reports the
\* two bytes of the opcode and the status, and it does not test the index.
C32_AsStated ==
    \A index \in DOMAIN before.controllers :
       IsClassCompletion(last, index) =>
           IF RegisteredBefore(index) /\ AdapterFound(index)
           THEN /\ Len(calls) = 1
                /\ calls[1][1] = "btd_adapter_class_changed"
                /\ calls[1][3] = SubSeq(last.arg[1], 1, SizeofCod)
           ELSE index > before.max_index =>
                    /\ calls = <<>>
                    /\ pc = "running"

\* C32: what is reported is the opcode's two bytes and the status
C32_ReportsHeader ==
    \A index \in DOMAIN before.controllers :
       (/\ IsClassCompletion(last, index)
        /\ RegisteredBefore(index) /\ AdapterFound(index)) =>
           /\ Len(calls) = 1
           /\ calls[1][1] = "btd_adapter_class_changed"
           /\ calls[1][3] = <<MGMT_OP_SET_DEV_CLASS % 256,
                               MGMT_OP_SET_DEV_CLASS \div 256,
                               last.arg[2]>>

\* a class has been reported for a completion that carried another one
C32_Witness ==
    /\ last.op = "MGMT_OP_SET_DEV_CLASS"
    /\ Len(last.arg[1]) >= SizeofCod
    /\ Len(calls) = 1
    /\ calls[1][1] = "btd_adapter_class_changed"
    /\ calls[1][3] # SubSeq(last.arg[1], 1, SizeofCod)

(***************************************************************************)
(* Requests queued with no UUID operation in flight.                       *)
(***************************************************************************)
\* requests wait in the queue and no UUID operation is marked in flight
QueueAdrift(info) == info.pending_uuids # <<>> /\ ~info.pending_uuid

\* the step drained the queue of index: a UUID completion, or the
\* class-of-device event that follows a busy status
IsDrain(l, index) == IsUuidCompletion(l, index) \/ IsBusyRetry(l, index)

\* C33, as stated: whenever requests are queued for a registered controller
\* its in-flight flag is set, also after a write failed for a drained entry.
\* handle_pending_uuids() clears the flag first, and the failed write of
\* the drained entry leaves it clear with the other entries queued.
C33_AsStated ==
    \A index \in DOMAIN controllers :
        Registered(index) => ~QueueAdrift(controllers[index])

\* C33 amended: requests are queued with the in-flight flag clear only
\* after a drain whose write of the front entry failed while other entries
\* were queued behind it, and from then until the next step that changes
\* the flag or the queue; in every other state of a registered controller a
\* non-empty queue implies the flag.
C33_QueueWaits ==
    \A index \in DOMAIN before.controllers :
       (/\ index <= max_index
        /\ controllers[index].valid
        /\ QueueAdrift(controllers[index])) =>
           \/ /\ IsDrain(last, index)
              /\ last.wfail
              /\ sent = <<>>
              /\ Len(before.controllers[index].pending_uuids) >= 2
              /\ controllers[index].pending_uuids
                     = Tail(before.controllers[index].pending_uuids)
           \/ /\ QueueAdrift(before.controllers[index])
              /\ controllers[index].pending_uuids
                     = before.controllers[index].pending_uuids

\* a drain has lost the front entry to a failed write and left the next
\* one queued with the flag clear
C33_Witness ==
    /\ IsUuidCompletion(last, last.index)
    /\ last.wfail
    /\ Registered(last.index)
    /\ QueueAdrift(controllers[last.index])

(***************************************************************************)
(* The entry lost to a failed write.                                       *)
(***************************************************************************)
\* the wildcard remove that clear_uuids() asks for
ClearCmd(index) ==
    EntryCmd([add |-> FALSE, uuid |-> uuid_any, svc_hint |-> 0], index)

\* C35: a UUID completion that drains the front entry with a failing write
\* still removes that entry, transmits nothing and leaves the in-flight flag
\* clear; a UUID command is only ever transmitted for the request being
\* made, for the entry at the front of the queue, or for the clearing of
\* bring-up, so the entry removed is not transmitted later; and a new
\* request made for a 16-bit UUID while entries wait with the flag clear is
\* transmitted at once, ahead of them, and leaves them queued.
C35_LostEntry ==
    \A index \in DOMAIN before.controllers :
       LET info == before.controllers[index]
           q == info.pending_uuids
           q2 == controllers[index].pending_uuids
           out == UuidCmdsFor(sent, index)
       IN  /\ (/\ IsUuidCompletion(last, index) /\ index <= before.max_index
               /\ q # <<>> /\ last.wfail)
               => /\ q2 = Tail(q)
                  /\ out = <<>>
                  /\ ~controllers[index].pending_uuid
           /\ out # <<>> =>
                  \/ IsUuidRequest(last, index)
                         /\ out = <<RequestCmd(last)>> /\ q2 = q
                  \/ IsDrain(last, index) /\ q # <<>>
                         /\ out = <<EntryCmd(Head(q), index)>>
                         /\ q2 = Tail(q)
                  \/ IsReadInfo(last, index) /\ out = <<ClearCmd(index)>>
           /\ (/\ IsUuidRequest(last, index) /\ RegisteredBefore(index)
               /\ QueueAdrift(info)
               /\ Names16Bit(last.arg[1], last.arg[2], last.arg[3])
               /\ ~last.wfail)
               => /\ out = <<RequestCmd(last)>>
                  /\ q2 = q
                  /\ controllers[index].pending_uuid

\* a new request has been transmitted while an entry waits in the queue:
\* the entry in front of that one was lost to a failed write
C35_Witness ==
    /\ IsUuidRequest(last, last.index)
    /\ UuidCmdsFor(sent, last.index) = <<RequestCmd(last)>>
    /\ controllers[last.index].pending_uuids # <<>>
    /\ controllers[last.index].pending_uuid

(***************************************************************************)
(* The class change and the power-on wait for the UUID operation.          *)
(***************************************************************************)
\* seq holds a set-device-class or a set-powered(on) command for index
ClassOrPowerOn(seq, index) ==
    \E k \in 1..Len(seq) :
        /\ seq[k][2] = index
        /\ \/ seq[k][1] = "MGMT_OP_SET_DEV_CLASS"
           \/ seq[k][1] = "MGMT_OP_SET_POWERED" /\ seq[k][3] = <<1>>

\* C36, as stated: no set-device-class and no set-powered(on) command is
\* transmitted for a controller while a UUID command transmitted for it has
\* had no completion.  A power-off signal, the class event after a busy
\* status and a new registration clear the in-flight flag with the
\* completion outstanding.
C36_AsStated ==
    \A index \in DOMAIN before.controllers :
       ClassOrPowerOn(sent, index) =>
           /\ before.unacked[index].c = 0 \/ IsUuidCompletion(last, index)
           /\ unacked[index].c = 0

\* C36 amended: no set-device-class and no set-powered(on) command is
\* transmitted for a controller while a UUID command is outstanding that
\* was transmitted after the last UUID completion, class-of-device event
\* taken as the retry of a busy add, power-off signal, registration or
\* removal of the controller.
C36_Held ==
    \A index \in DOMAIN before.controllers :
       ClassOrPowerOn(sent, index) =>
           /\ \/ before.unacked[index].r = 0
              \/ IsUuidCompletion(last, index)
              \/ IsBusyRetry(last, index)
           /\ unacked[index].r = 0

\* a class change or a power-on requested with a UUID command outstanding
\* has been held back
C36_Witness ==
    /\ last.op \in {"mgmt_set_dev_class", "mgmt_set_powered"}
    /\ last.arg # <<0>>
    /\ unacked[last.index].r = 1
    /\ sent = <<>>
    /\ ret = 0
    /\ \/ controllers[last.index].pending_class
       \/ controllers[last.index].pending_powered

(***************************************************************************)
(* The power-off request.                                                  *)
(***************************************************************************)
IsPowerRequest(l, index, on) ==
    l.op = "mgmt_set_powered" /\ l.index = index /\ l.arg = <<B2I(on)>>

PowerOffCmd(index) == <<"MGMT_OP_SET_POWERED", index, <<0>> >>

HasPowerOn(seq, index) ==
    \E k \in 1..Len(seq) :
        /\ seq[k][1] = "MGMT_OP_SET_POWERED"
        /\ seq[k][2] = index
        /\ seq[k][3] = <<1>>

IsClassRequest(l, index) == l.op = "mgmt_set_dev_class" /\ l.index = index

ClassCmdsFor(seq, index) ==
    SelectSeq(seq, LAMBDA cmd : cmd[1] = "MGMT_OP_SET_DEV_CLASS"
                                    /\ cmd[2] = index)

\* the step found the queue of index empty and drained it
IsFinalDrain(l, index) ==
    /\ IsDrain(l, index)
    /\ index <= before.max_index
    /\ before.controllers[index].pending_uuids = <<>>

\* C38, as stated: a class request made with a UUID operation in flight
\* transmits nothing and returns 0; the class change so queued is given up
\* only by being transmitted; and the drain that finds it queued transmits
\* exactly one set-device-class command, with the class of the latest
\* request.  The write of the drain may fail, and a power-off signal drops
\* the queued class change.
C38_AsStated ==
    \A index \in DOMAIN before.controllers :
       LET info == before.controllers[index]
           info2 == controllers[index]
       IN  /\ (IsClassRequest(last, index) /\ info.pending_uuid)
               => /\ sent = <<>> /\ ret = 0
                  /\ info2.pending_class
                  /\ <<info2.major, info2.minor>> = last.arg
           /\ (index <= before.max_index /\ info.valid /\ info.pending_class
                   /\ ~IsIndexAdded(last, index)
                   /\ ~IsIndexRemoved(last, index))
               => \/ /\ info2.pending_class
                     /\ ClassCmdsFor(sent, index) = <<>>
                  \/ /\ ~info2.pending_class
                     /\ ClassCmdsFor(sent, index)
                            = <<ClassCmd(index, info.major, info.minor)>>

\* C38 amended: a class request made with a UUID operation in flight
\* transmits nothing, returns 0 and replaces the class queued; the queued
\* class is otherwise changed only by bring-up's own class request; the
\* class change stays queued until the drain that finds the queue empty, a
\* power-off signal, or the controller's registration or removal; that
\* drain writes exactly one set-device-class command, with the class of the
\* latest request made with a UUID operation in flight, which is
\* transmitted unless the write fails; a power-off signal transmits none.
\* Until then a set-device-class command is transmitted for the controller
\* only by a request that finds no UUID operation in flight (after a drain
\* whose write failed), which leaves the queued class as it is.
C38_LatestClass ==
    \A index \in DOMAIN before.controllers :
       LET info == before.controllers[index]
           info2 == controllers[index]
       IN  /\ (IsClassRequest(last, index) /\ info.pending_uuid)
               => /\ sent = <<>> /\ ret = 0
                  /\ info2 = [info EXCEPT !.pending_class = TRUE,
                                          !.major = last.arg[1],
                                          !.minor = last.arg[2]]
           /\ (index <= before.max_index /\ info.valid
                   /\ <<info2.major, info2.minor>>
                          # <<info.major, info.minor>>)
               => \/ IsClassRequest(last, index) /\ info.pending_uuid
                  \/ IsReadInfo(last, index)
                  \/ IsIndexAdded(last, index)
                  \/ IsIndexRemoved(last, index)
           /\ (index <= before.max_index /\ info.valid /\ info.pending_class
                   /\ ~IsIndexAdded(last, index)
                   /\ ~IsIndexRemoved(last, index))
               => \/ /\ info2.pending_class
                     /\ ClassCmdsFor(sent, index) = <<>>
                  \/ /\ info2.pending_class
                     /\ IsClassRequest(last, index)
                     /\ ~info.pending_uuid
                     /\ sent = <<ClassCmd(index, last.arg[1],
                                          last.arg[2])>>
                  \/ /\ info2.pending_class
                     /\ IsReadInfo(last, index)
                     /\ Len(ClassCmdsFor(sent, index)) = 1
                  \/ /\ ~info2.pending_class
                     /\ IsFinalDrain(last, index)
                     /\ \/ ClassCmdsFor(sent, index)
                               = <<ClassCmd(index, info.major, info.minor)>>
                        \/ /\ last.wfail
                           /\ ClassCmdsFor(sent, index) = <<>>
                  \/ /\ ~info2.pending_class
                     /\ IsPowerOffSignal(last, index)
                     /\ sent = <<>>

\* a completion has transmitted the class of the request that replaced the
\* one queued at bring-up
C38_Witness ==
    /\ IsUuidCompletion(last, last.index)
    /\ sent = <<ClassCmd(last.index, 2, 8)>>
    /\ controllers[last.index].major = 2
    /\ controllers[last.index].minor = 8
    /\ ~controllers[last.index].pending_class
    /\ ~controllers[last.index].pending_uuid

(***************************************************************************)
(* The class change of bring-up waits for the clearing of the UUIDs.       *)
(***************************************************************************)
\* the read-info completion of the step brings up index, registered and
\* untouched since
FreshBringUp(index) ==
    /\ BroughtUp
    /\ last.index = index
    /\ before.controllers[index] = FreshInfo

\* C39, as stated: the bring-up of a fresh controller transmits the clearing
\* of the UUIDs first, which marks the UUID operation in flight, transmits
\* no set-device-class but queues it, and the queued class change is
\* transmitted only by the completion of a UUID command.  When the write of
\* the clearing fails nothing is in flight and set-device-class is written
\* at once.
C39_AsStated ==
    \A index \in DOMAIN before.controllers :
       LET info == before.controllers[index]
           info2 == controllers[index]
       IN  /\ FreshBringUp(index) =>
                  /\ sent # <<>>
                  /\ sent[1] = ClearCmd(index)
                  /\ info2.pending_uuid
                  /\ ClassCmdsFor(sent, index) = <<>>
                  /\ info2.pending_class
           /\ (/\ index <= before.max_index /\ info.valid
               /\ info.pending_uuid /\ info.pending_class
               /\ ClassCmdsFor(sent, index) # <<>>) =>
                  IsUuidCompletion(last, index)

\* C39 amended: the bring-up of a fresh controller writes the clearing of
\* the UUIDs first; when that write succeeds the command is the first one
\* transmitted, the UUID operation is marked in flight, no set-device-class
\* is transmitted during the handling of the read-info completion and the
\* class change is queued; when it fails nothing is marked or queued and
\* set-device-class is written at once.  A class change queued behind a UUID
\* operation is transmitted only by the drain that finds the queue empty: a
\* UUID completion, or the class-of-device event that follows a busy
\* status.
C39_ClearFirst ==
    \A index \in DOMAIN before.controllers :
       LET info == before.controllers[index]
           info2 == controllers[index]
       IN  /\ FreshBringUp(index) =>
                  IF UuidCmdsFor(sent, index) # <<>>
                  THEN /\ sent[1] = ClearCmd(index)
                       /\ UuidCmdsFor(sent, index) = <<ClearCmd(index)>>
                       /\ info2.pending_uuid
                       /\ ClassCmdsFor(sent, index) = <<>>
                       /\ info2.pending_class
                       /\ info2.pending_uuids = <<>>
                  ELSE /\ last.wfail
                       /\ ~info2.pending_uuid
                       /\ ~info2.pending_class
                       /\ Len(ClassCmdsFor(sent, index)) <= 1
           /\ (/\ index <= before.max_index /\ info.valid
               /\ info.pending_uuid /\ info.pending_class
               /\ ClassCmdsFor(sent, index) # <<>>) =>
                  /\ IsFinalDrain(last, index)
                  /\ ClassCmdsFor(sent, index)
                         = <<ClassCmd(index, info.major, info.minor)>>

\* the completion of the clearing has transmitted the class change that
\* bring-up queued
C39_Witness ==
    /\ last.op = "MGMT_OP_REMOVE_UUID"
    /\ Registered(last.index)
    /\ adapters[last.index] # NoAdapter
    /\ unacked[last.index].r = 0
    /\ ClassCmdsFor(sent, last.index) = <<ClassCmd(last.index, 1, 4)>>
    /\ sent[1] = ClassCmd(last.index, 1, 4)
    /\ ~controllers[last.index].pending_class


(***************************************************************************)
(* Two controllers.  Both are registered and brought up by index-added     *)
(* events and read-info completions; the other inbound messages and the    *)
(* public operations are addressed to controller 0, so that every step of  *)
(* controller 0 is taken beside every state controller 1 can be left in.   *)
(***************************************************************************)
MaxIsoIndex == 1

IsoIdx == 0..MaxIsoIndex

InitIsolation ==
    /\ max_index = -1
    /\ controllers = [j \in IsoIdx |-> ZeroInfo]
    /\ adapters = [j \in IsoIdx |-> NoAdapter]
    /\ sent = <<Cmd("MGMT_OP_READ_VERSION", 65535, <<>>)>>
    /\ calls = <<>>
    /\ ret = 0
    /\ last = [op |-> "mgmt_setup", index |-> 65535, arg |-> <<>>,
               wfail |-> FALSE]
    /\ pc = "running"
    /\ unacked = [j \in IsoIdx |-> [c |-> 0, r |-> 0]]
    /\ before = Found

NextIsolation ==
    \/ MainLoop
    \/ \E index \in IsoIdx : IndexAdded(index)
    \/ \E index \in IsoIdx : ReadInfoComplete(index)
    \/ IndexRemoved(0)
    \/ NewSettings(0)
    \/ UuidComplete(0)
    \/ CodChanged(0)
    \/ SetPowered(0)
    \/ SetDevClass(0)
    \/ StartDiscovery(0)

SpecIsolation == InitIsolation /\ [][NextIsolation]_vars

\* what C40 names of a controller: its pending-operation state (with the
\* deferred class values), its current settings and its discovery type
IsolatedState(info) ==
    <<PendingState(info), info.major, info.minor,
      info.current_settings, info.discov_type>>

\* C40: a public operation or an inbound message addressed to controller
\* index i, registered or not, leaves the pending-operation state, the
\* current settings and the discovery type of every other registered
\* controller j as they were.
C40_Isolated ==
    \A j \in DOMAIN before.controllers :
       (/\ last # Idle
        /\ last.index \in DOMAIN before.controllers
        /\ last.index # j
        /\ RegisteredBefore(j))
       => IsolatedState(controllers[j]) = IsolatedState(before.controllers[j])

\* a power-on request to controller i has just been deferred while another
\* registered controller has an identifier operation in flight and a class
\* held back
C40_Witness ==
    /\ last # Idle
    /\ last.op = "mgmt_set_powered"
    /\ last.index \in DOMAIN controllers
    /\ Registered(last.index)
    /\ controllers[last.index].pending_powered
    /\ \E j \in DOMAIN controllers :
           /\ j # last.index
           /\ Registered(j)
           /\ controllers[j].pending_uuid
           /\ controllers[j].pending_class


(***************************************************************************)
(* The identifier queue under a fair schedule.  Every write succeeds, the  *)
(* controller stays registered, no settings signal arrives, and the        *)
(* completion of an identifier command is delivered again and again: the   *)
(* main loop returns from every handler, and whenever it is idle with a    *)
(* registered controller a completion can be read from the socket.         *)
(***************************************************************************)
WritesSucceed == ~last'.wfail

LiveIndexAdded ==
    \E index \in Idx : ~Registered(index) /\ IndexAdded(index) /\ WritesSucceed

LiveUuidCompleteFor(index) ==
    Registered(index) /\ UuidComplete(index) /\ WritesSucceed

LiveUuidComplete == \E index \in Idx : LiveUuidCompleteFor(index)

LiveCmdStatus == \E index \in Idx : Registered(index) /\ CmdStatus(index)

LiveCodChanged ==
    \E index \in Idx : Registered(index) /\ CodChanged(index) /\ WritesSucceed

LiveAddUuid == \E index \in Idx : AddUuid(index) /\ WritesSucceed

LiveRemoveUuid == \E index \in Idx : RemoveUuid(index) /\ WritesSucceed

LiveSetDevClass == \E index \in Idx : SetDevClass(index) /\ WritesSucceed

LiveSetPowered == \E index \in Idx : SetPowered(index) /\ WritesSucceed

NextLive ==
    \/ MainLoop
    \/ LiveIndexAdded
    \/ LiveUuidComplete
    \/ LiveCmdStatus
    \/ LiveCodChanged
    \/ LiveAddUuid
    \/ LiveRemoveUuid
    \/ LiveSetDevClass
    \/ LiveSetPowered

\* ENABLED <<LiveUuidCompleteFor(index)>>_vars, written out: a completion
\* step changes last, and one without a failed write exists from every such
\* state
CanComplete(index) ==
    /\ pc = "running"
    /\ last = Idle
    /\ Registered(index)

\* weak fairness of the main loop, and for every controller strong fairness
\* of its completion: the latter is SF_vars(LiveUuidCompleteFor(index)) with
\* its ENABLED as CanComplete(index)
SpecLive ==
    /\ Init
    /\ [][NextLive]_vars
    /\ WF_vars(MainLoop)
    /\ \A index \in Idx :
           \/ <>[]~CanComplete(index)
           \/ []<><<LiveUuidCompleteFor(index)>>_vars

\* the entries the requests of AddRequests and RemoveRequests can queue
LiveEntries ==
    {entry \in
         {[add |-> TRUE, uuid |-> req[1], svc_hint |-> req[2]] :
              req \in AddRequests}
         \cup {[add |-> FALSE, uuid |-> uuid, svc_hint |-> 0] :
                   uuid \in RemoveRequests} :
         is_16bit_uuid(entry.uuid)}

Queued(entry, index) ==
    \E k \in 1..Len(controllers[index].pending_uuids) :
        controllers[index].pending_uuids[k] = entry

Transmitted(cmd) ==
    \E k \in 1..Len(sent) : sent[k][1] = cmd[1] /\ sent[k] = cmd

QueueEmpty(index) == Len(controllers[index].pending_uuids) = 0

PowerOffRequested(index) ==
    last.op = "mgmt_set_powered" /\ last.index = index /\ last.arg = <<0>>

\* every entry in the queue is eventually transmitted
QueueDrains ==
    \A index \in Idx : \A entry \in LiveEntries :
        Queued(entry, index) ~> Transmitted(EntryCmd(entry, index))

\* a class held back behind an empty queue is eventually transmitted, unless
\* the queue fills again first
ClassFollows ==
    \A index \in Idx :
        (controllers[index].pending_class /\ QueueEmpty(index))
            ~> (HasCmd(sent, "MGMT_OP_SET_DEV_CLASS", index)
                \/ ~QueueEmpty(index))

=============================================================================
